---- MODULE Spec2Model ----
(***************************************************************************)
(* A model of the IntelliNLP conversation engine                           *)
(* (src/project/src/utils/chatProcessor.ts) and of the part of the React   *)
(* front end that drives it (src/project/src/App.tsx).                     *)
(*                                                                         *)
(* JavaScript strings are TLA+ strings; a character is a string of length  *)
(* one, taken with SubSeq.  An async function is cut at its awaits: the    *)
(* code between two awaits runs without interruption and is one action.    *)
(***************************************************************************)
EXTENDS Integers, Sequences, FiniteSets, TLC

(***************************************************************************)
(* Bounds of the model.                                                    *)
(***************************************************************************)
\* number of processMessage invocations in one behaviour of Spec
MaxCalls == 2
\* number of processMessage invocations in one behaviour of SpecFault
MaxFaultCalls == 2
\* number of processMessage invocations in one behaviour of SpecApi
MaxApiCalls == 1
\* number of processMessage invocations in one behaviour of SpecTopics
MaxTopicCalls == 3
\* invocations of processMessage in one behaviour of SpecTone
MaxToneCalls == 2
\* invocations of processMessage in one behaviour of SpecFiles
MaxFileCalls == 1
\* invocations of processMessage in one behaviour of SpecIntent
MaxIntentCalls == 1
\* invocations of processMessage in one behaviour of SpecAnalyze
MaxAnalyzeCalls == 1
\* invocations of processMessage in one behaviour of SpecPhrase
MaxPhraseCalls == 2
\* invocations of processMessage in one behaviour of SpecEvict
MaxEvictCalls == 4
\* invocations of processMessage in one behaviour of SpecGreeting
MaxGreetingCalls == 2
\* invocations of processMessage in one behaviour of SpecLookBack
MaxLookBackCalls == 3
\* number of messages sent in one behaviour of SpecApp
MaxSends == 2
\* number of sessions in one behaviour of SpecApp
MaxSessions == 2
\* number of clearHistory invocations in one behaviour
MaxClears == 1
\* largest value of the clock (Date.now) in one behaviour
MaxClock == 1

(***************************************************************************)
(* JavaScript values and string primitives.                                *)
(***************************************************************************)
\* The JavaScript value undefined, where a string was expected.
Undefined == "<undefined>"

UpperChars == "ABCDEFGHIJKLMNOPQRSTUVWXYZ"
LowerChars == "abcdefghijklmnopqrstuvwxyz"
DigitChars == "0123456789"

CharAt(s, i) == SubSeq(s, i, i)

\* the characters of an alphabet, and the place of each in it
CharsOf(alphabet) == {CharAt(alphabet, i) : i \in 1..Len(alphabet)}
PlacesIn(alphabet) ==
  [c \in CharsOf(alphabet) |-> CHOOSE i \in 1..Len(alphabet) : CharAt(alphabet, i) = c]

UpperSet == CharsOf(UpperChars)
LowerSet == CharsOf(LowerChars)
DigitSet == CharsOf(DigitChars)
IsUpper(c) == c \in UpperSet
IsLower(c) == c \in LowerSet
IsDigit(c) == c \in DigitSet
\* \w of a JavaScript regular expression
IsWordChar(c) == IsUpper(c) \/ IsLower(c) \/ IsDigit(c) \/ c = "_"
\* \s of a JavaScript regular expression (the characters the model uses)
SpaceChars == {" ", "\n", "\t", "\r"}
IsSpace(c) == c \in SpaceChars

LowerTable == [c \in UpperSet |-> CharAt(LowerChars, PlacesIn(UpperChars)[c])]
UpperTable == [c \in LowerSet |-> CharAt(UpperChars, PlacesIn(LowerChars)[c])]
LowerChar(c) == IF IsUpper(c) THEN LowerTable[c] ELSE c
UpperChar(c) == IF IsLower(c) THEN UpperTable[c] ELSE c

\* The character-wise functions recurse on the two halves of the string, so
\* that the depth of the recursion is logarithmic in its length.
RECURSIVE toLowerCase(_)
toLowerCase(s) ==
  IF Len(s) = 0 THEN ""
  ELSE IF Len(s) = 1 THEN LowerChar(s)
  ELSE toLowerCase(SubSeq(s, 1, Len(s) \div 2))
       \o toLowerCase(SubSeq(s, (Len(s) \div 2) + 1, Len(s)))

RECURSIVE toUpperCase(_)
toUpperCase(s) ==
  IF Len(s) = 0 THEN ""
  ELSE IF Len(s) = 1 THEN UpperChar(s)
  ELSE toUpperCase(SubSeq(s, 1, Len(s) \div 2))
       \o toUpperCase(SubSeq(s, (Len(s) \div 2) + 1, Len(s)))

\* String.prototype.includes
includes(s, t) == \E i \in 1..(Len(s) - Len(t) + 1) : SubSeq(s, i, i + Len(t) - 1) = t

\* String.prototype.startsWith
startsWith(s, t) == Len(s) >= Len(t) /\ SubSeq(s, 1, Len(t)) = t

\* /^(a|b|...)/.test(s) for a set of literal alternatives
testPrefix(alternatives, s) == \E t \in alternatives : startsWith(s, t)

\* String.prototype.split on one character of a class: the pieces between
\* the separators; two adjacent separators leave an empty piece.
RECURSIVE splitOn(_, _)
splitOn(s, seps) ==
  IF Len(s) = 0 THEN <<"">>
  ELSE IF Len(s) = 1 THEN (IF s \in seps THEN <<"", "">> ELSE <<s>>)
  ELSE LET left == splitOn(SubSeq(s, 1, Len(s) \div 2), seps)
           right == splitOn(SubSeq(s, (Len(s) \div 2) + 1, Len(s)), seps)
       IN SubSeq(left, 1, Len(left) - 1)
          \o << left[Len(left)] \o right[1] >>
          \o SubSeq(right, 2, Len(right))

\* String.prototype.split on runs of a class, as /\s+/ and /[.!?]+/: the
\* empty pieces between adjacent separators disappear; a leading or trailing
\* run still leaves an empty first or last piece.
splitRuns(s, seps) ==
  LET pieces == splitOn(s, seps)
      kept == {i \in 1..Len(pieces) : pieces[i] # "" \/ i = 1 \/ i = Len(pieces)}
      nth(k) == CHOOSE i \in kept : Cardinality({j \in kept : j < i}) = k - 1
  IN [k \in 1..Cardinality(kept) |-> pieces[nth(k)]]

\* String.prototype.split(/\s+/)
splitWhitespace(s) == splitRuns(s, SpaceChars)

SeqElems(seq) == {seq[i] : i \in 1..Len(seq)}

\* [...new Set(seq)]: the first occurrence of every element, in order
RECURSIVE uniqueInOrder(_)
uniqueInOrder(seq) ==
  IF seq = <<>> THEN <<>>
  ELSE LET front == uniqueInOrder(SubSeq(seq, 1, Len(seq) - 1))
           last == seq[Len(seq)]
       IN IF last \in SeqElems(front) THEN front ELSE Append(front, last)

\* Array.prototype.slice(0, n)
sliceFirst(seq, n) == SubSeq(seq, 1, IF Len(seq) < n THEN Len(seq) ELSE n)

\* Array.prototype.slice(-n)
sliceLast(seq, n) == SubSeq(seq, IF Len(seq) > n THEN Len(seq) - n + 1 ELSE 1, Len(seq))

\* Array.prototype.join
RECURSIVE join(_, _)
join(seq, sep) ==
  IF seq = <<>> THEN ""
  ELSE IF Len(seq) = 1 THEN seq[1]
  ELSE seq[1] \o sep \o join(Tail(seq), sep)

(***************************************************************************)
(* Context Tracker: the helpers of updateContext.                          *)
(***************************************************************************)
\* number of topics the context keeps (slice(-10))
TopicsCap == 10
\* number of topics one utterance contributes (slice(0, 5))
TopicsPerTurn == 5

\* the last index k >= j with s[j..k] all lower-case letters (j - 1 if none)
RECURSIVE lowerRunEnd(_, _)
lowerRunEnd(s, j) ==
  IF j <= Len(s) /\ IsLower(CharAt(s, j)) THEN lowerRunEnd(s, j + 1) ELSE j - 1

\* content.match(/\b[A-Z][a-z]+/g) || []
RECURSIVE matchCapitalizedFrom(_, _, _)
matchCapitalizedFrom(s, i, acc) ==
  IF i > Len(s) THEN acc
  ELSE IF /\ IsUpper(CharAt(s, i))
          /\ (i = 1 \/ ~IsWordChar(CharAt(s, i - 1)))
          /\ lowerRunEnd(s, i + 1) > i
       THEN matchCapitalizedFrom(s, lowerRunEnd(s, i + 1) + 1,
                                 Append(acc, SubSeq(s, i, lowerRunEnd(s, i + 1))))
       ELSE matchCapitalizedFrom(s, i + 1, acc)

matchCapitalized(s) == matchCapitalizedFrom(s, 1, <<>>)

isTechnicalTerm(word) ==
  /\ Len(word) > 6
  /\ \/ includes(word, "tion")
     \/ includes(word, "ment")
     \/ includes(word, "ness")
     \/ includes(word, "ing")

extractTopics(content) ==
  LET words == splitWhitespace(toLowerCase(content))
      capitalizedWords == matchCapitalized(content)
      technicalTerms == SelectSeq(words, isTechnicalTerm)
  IN sliceFirst(uniqueInOrder(capitalizedWords \o technicalTerms), TopicsPerTurn)

detectTone(content) ==
  LET lowerContent == toLowerCase(content)
  IN IF includes(lowerContent, "please") \/ includes(lowerContent, "thank you")
        \/ includes(lowerContent, "appreciate")
     THEN "formal"
     ELSE IF includes(lowerContent, "hey") \/ includes(lowerContent, "cool")
             \/ includes(lowerContent, "awesome")
     THEN "casual"
     ELSE IF includes(lowerContent, "algorithm") \/ includes(lowerContent, "function")
             \/ includes(lowerContent, "implementation")
     THEN "technical"
     ELSE "friendly"

QuestionStarts ==
  {"what", "how", "why", "when", "where", "who", "which", "can", "could", "will",
   "would", "are", "do", "did", "have", "is", "does"}

\* isQuestion looking for the question mark only
isQuestionMarkOnly(content) == includes(content, "?")

isQuestion(content) ==
  includes(content, "?") \/ testPrefix(QuestionStarts, toLowerCase(content))

\* a.type of every attachment, in order
attachmentTypesOf(attachments) == [i \in 1..Len(attachments) |-> attachments[i].type]

\* updateContext dereferences content first (extractTopics calls
\* content.toLowerCase()), so an undefined utterance raises a TypeError
\* before any field of the context is written.
updateContextThrows(content, attachments) == content = Undefined

\* updateContext without  .slice(-10)
updateContextNoCap(ctx, content, attachments) ==
  [ topics |-> uniqueInOrder(ctx.topics \o extractTopics(content)),
    userPreferences |-> ctx.userPreferences,
    conversationTone |-> detectTone(content),
    previousQuestions |->
      IF isQuestion(content) THEN Append(ctx.previousQuestions, content)
      ELSE ctx.previousQuestions,
    attachmentHistory |->
      IF Len(attachments) > 0
      THEN uniqueInOrder(ctx.attachmentHistory \o attachmentTypesOf(attachments))
      ELSE ctx.attachmentHistory ]

\* updateContext pushing the attachment types instead of merging them in a Set
updateContextPushesTypes(ctx, content, attachments) ==
  [ topics |-> sliceLast(uniqueInOrder(ctx.topics \o extractTopics(content)), TopicsCap),
    userPreferences |-> ctx.userPreferences,
    conversationTone |-> detectTone(content),
    previousQuestions |->
      IF isQuestion(content) THEN Append(ctx.previousQuestions, content)
      ELSE ctx.previousQuestions,
    attachmentHistory |-> ctx.attachmentHistory \o attachmentTypesOf(attachments) ]

\* updateContext without the test of isQuestion
updateContextTracksAll(ctx, content, attachments) ==
  [ topics |-> sliceLast(uniqueInOrder(ctx.topics \o extractTopics(content)), TopicsCap),
    userPreferences |-> ctx.userPreferences,
    conversationTone |-> detectTone(content),
    previousQuestions |-> Append(ctx.previousQuestions, content),
    attachmentHistory |->
      IF Len(attachments) > 0
      THEN uniqueInOrder(ctx.attachmentHistory \o attachmentTypesOf(attachments))
      ELSE ctx.attachmentHistory ]

\* updateContext keeping the old tone when no keyword family matches
updateContextKeepsTone(ctx, content, attachments) ==
  [ topics |-> sliceLast(uniqueInOrder(ctx.topics \o extractTopics(content)), TopicsCap),
    userPreferences |-> ctx.userPreferences,
    conversationTone |->
      IF detectTone(content) = "friendly" THEN ctx.conversationTone
      ELSE detectTone(content),
    previousQuestions |->
      IF isQuestion(content) THEN Append(ctx.previousQuestions, content)
      ELSE ctx.previousQuestions,
    attachmentHistory |->
      IF Len(attachments) > 0
      THEN uniqueInOrder(ctx.attachmentHistory \o attachmentTypesOf(attachments))
      ELSE ctx.attachmentHistory ]

\* updateContext keeping the first ten topics:  .slice(0, 10)
updateContextKeepsOldest(ctx, content, attachments) ==
  [ topics |-> sliceFirst(uniqueInOrder(ctx.topics \o extractTopics(content)), TopicsCap),
    userPreferences |-> ctx.userPreferences,
    conversationTone |-> detectTone(content),
    previousQuestions |->
      IF isQuestion(content) THEN Append(ctx.previousQuestions, content)
      ELSE ctx.previousQuestions,
    attachmentHistory |->
      IF Len(attachments) > 0
      THEN uniqueInOrder(ctx.attachmentHistory \o attachmentTypesOf(attachments))
      ELSE ctx.attachmentHistory ]

updateContext(ctx, content, attachments) ==
  [ topics |-> sliceLast(uniqueInOrder(ctx.topics \o extractTopics(content)), TopicsCap),
    userPreferences |-> ctx.userPreferences,
    conversationTone |-> detectTone(content),
    previousQuestions |->
      IF isQuestion(content) THEN Append(ctx.previousQuestions, content)
      ELSE ctx.previousQuestions,
    attachmentHistory |->
      IF Len(attachments) > 0
      THEN uniqueInOrder(ctx.attachmentHistory \o attachmentTypesOf(attachments))
      ELSE ctx.attachmentHistory ]

DefaultContext ==
  [ topics |-> <<>>,
    userPreferences |-> <<>>,
    conversationTone |-> "friendly",
    previousQuestions |-> <<>>,
    attachmentHistory |-> <<>> ]

(***************************************************************************)
(* Intent Classifier and the shared extraction helpers.                    *)
(* Non-ASCII glyphs of the templates (the bullet, the emoji) are written   *)
(* "*" and left out; no rule of the engine looks at them.                  *)
(***************************************************************************)
GreetingStarts == {"hi", "hello", "hey", "good morning", "good afternoon", "good evening"}

QuestionOpeners ==
  {"what", "how", "why", "when", "where", "who", "which", "can you", "could you",
   "will you", "would you", "are you", "do you", "did you", "have you", "is it", "does it"}

RequestOpeners ==
  {"please", "can you", "could you", "would you", "help me", "i need", "i want",
   "create", "make", "generate", "write", "explain", "analyze", "summarize"}

OpinionOpeners ==
  {"i think", "i believe", "in my opinion", "it seems", "i feel", "i noticed", "i found"}

\* analyzeMessageType with the question rule tried before the greeting rule
analyzeMessageTypeQuestionFirst(content) ==
  LET lowerContent == toLowerCase(content)
  IN IF includes(lowerContent, "?") \/ testPrefix(QuestionOpeners, lowerContent)
     THEN "question"
     ELSE IF testPrefix(GreetingStarts, lowerContent) THEN "greeting"
     ELSE IF testPrefix(RequestOpeners, lowerContent) THEN "request"
     ELSE IF includes(lowerContent, "analyze") \/ includes(lowerContent, "review")
             \/ includes(lowerContent, "examine") \/ includes(lowerContent, "evaluate")
     THEN "analysis"
     ELSE IF testPrefix(OpinionOpeners, lowerContent) THEN "opinion"
     ELSE "conversation"

\* analyzeMessageType whose question rule does not look for a question mark
analyzeMessageTypeNoMark(content) ==
  LET lowerContent == toLowerCase(content)
  IN IF testPrefix(GreetingStarts, lowerContent) THEN "greeting"
     ELSE IF testPrefix(QuestionOpeners, lowerContent) THEN "question"
     ELSE IF testPrefix(RequestOpeners, lowerContent) THEN "request"
     ELSE IF includes(lowerContent, "analyze") \/ includes(lowerContent, "review")
             \/ includes(lowerContent, "examine") \/ includes(lowerContent, "evaluate")
     THEN "analysis"
     ELSE IF testPrefix(OpinionOpeners, lowerContent) THEN "opinion"
     ELSE "conversation"

\* analyzeMessageType with the request rule tried before the question rule
analyzeMessageTypeRequestFirst(content) ==
  LET lowerContent == toLowerCase(content)
  IN IF testPrefix(GreetingStarts, lowerContent) THEN "greeting"
     ELSE IF testPrefix(RequestOpeners, lowerContent) THEN "request"
     ELSE IF includes(lowerContent, "?") \/ testPrefix(QuestionOpeners, lowerContent)
     THEN "question"
     ELSE IF includes(lowerContent, "analyze") \/ includes(lowerContent, "review")
             \/ includes(lowerContent, "examine") \/ includes(lowerContent, "evaluate")
     THEN "analysis"
     ELSE IF testPrefix(OpinionOpeners, lowerContent) THEN "opinion"
     ELSE "conversation"

analyzeMessageType(content) ==
  LET lowerContent == toLowerCase(content)
  IN IF testPrefix(GreetingStarts, lowerContent) THEN "greeting"
     ELSE IF includes(lowerContent, "?") \/ testPrefix(QuestionOpeners, lowerContent)
     THEN "question"
     ELSE IF testPrefix(RequestOpeners, lowerContent) THEN "request"
     ELSE IF includes(lowerContent, "analyze") \/ includes(lowerContent, "review")
             \/ includes(lowerContent, "examine") \/ includes(lowerContent, "evaluate")
     THEN "analysis"
     ELSE IF testPrefix(OpinionOpeners, lowerContent) THEN "opinion"
     ELSE "conversation"

questionWords ==
  <<"what", "how", "why", "when", "where", "who", "which", "can you", "could you",
    "will you", "would you", "are you", "do you">>

\* extractQuestionWord falling back to 'how'
extractQuestionWordDefaultsHow(content) ==
  LET lowerContent == toLowerCase(content)
      hit(word) == startsWith(lowerContent, word)
      hits == SelectSeq(questionWords, hit)
  IN IF hits = <<>> THEN "how" ELSE Head(hits)

extractQuestionWord(content) ==
  LET lowerContent == toLowerCase(content)
      hit(word) == startsWith(lowerContent, word)
      hits == SelectSeq(questionWords, hit)
  IN IF hits = <<>> THEN "what" ELSE Head(hits)

actionWords ==
  <<"analyze", "create", "make", "generate", "explain", "summarize", "help", "write", "review">>

extractActionWord(content) ==
  LET lowerContent == toLowerCase(content)
      hit(word) == includes(lowerContent, word)
      hits == SelectSeq(actionWords, hit)
  IN IF hits = <<>> THEN "help" ELSE Head(hits)

stopWords ==
  {"the", "a", "an", "and", "or", "but", "in", "on", "at", "to", "for", "of", "with",
   "by", "can", "you", "please", "help", "me"}

\* replace(/[^\w\s]/g, '')
RECURSIVE stripPunctuation(_)
stripPunctuation(s) ==
  IF Len(s) = 0 THEN ""
  ELSE IF Len(s) = 1 THEN (IF IsWordChar(s) \/ IsSpace(s) THEN s ELSE "")
  ELSE stripPunctuation(SubSeq(s, 1, Len(s) \div 2))
       \o stripPunctuation(SubSeq(s, (Len(s) \div 2) + 1, Len(s)))

\* extractMainTopic without the placeholder
extractMainTopicNoPlaceholder(content) ==
  LET keep(word) == Len(word) > 2 /\ word \notin stopWords
      words == SelectSeq(splitWhitespace(stripPunctuation(toLowerCase(content))), keep)
  IN join(sliceFirst(words, 3), " ")

extractMainTopic(content) ==
  LET keep(word) == Len(word) > 2 /\ word \notin stopWords
      words == SelectSeq(splitWhitespace(stripPunctuation(toLowerCase(content))), keep)
      phrase == join(sliceFirst(words, 3), " ")
  IN IF phrase = "" THEN "this topic" ELSE phrase

(***************************************************************************)
(* Response Composer: the intent-based generators.  context is the         *)
(* look-back string of buildConversationContext, ctx is this.context and   *)
(* pick is the value of Math.floor(Math.random() * 4) + 1.                 *)
(***************************************************************************)
RandomPicks == 1..4

greetings ==
  << "Hello! I'm IntelliNLP, your intelligent text processing assistant.",
     "Hi there! Great to meet you. I'm here to help with all your text analysis and processing needs.",
     "Good to see you! I'm IntelliNLP, ready to assist with intelligent text processing and analysis.",
     "Hello! I'm excited to help you with text analysis, summarization, and intelligent processing." >>

generateGreetingResponse(content, context, pick) ==
  greetings[pick]
  \o (IF Len(context) > 0 THEN " I see we've been having an interesting conversation. " ELSE "")
  \o " What would you like to work on today? I can help with:\n\n"
  \o "* **Text Analysis & Summarization** - Extract key insights from any document\n"
  \o "* **Question Answering** - Get detailed answers based on your content\n"
  \o "* **Code Analysis** - Review, debug, and improve your code\n"
  \o "* **Document Processing** - Analyze PDFs, images, and various file formats\n"
  \o "* **Intelligent Conversation** - Natural discussion about any topic\n\n"
  \o "Feel free to upload files or ask me anything!"

generateSpecificAnswer(content, topic) ==
  "Based on your question about " \o topic \o ", here's a comprehensive explanation that addresses your specific inquiry. The key aspects to understand are the fundamental principles, practical applications, and how this relates to your particular context. This information should provide you with a clear understanding and actionable insights."

questionOpening(questionWord, topic) ==
  CASE questionWord = "what" ->
         "Great question about " \o topic \o "! Let me explain this clearly for you.\n\n"
    [] questionWord = "how" ->
         "I'd be happy to walk you through " \o topic \o ". Here's a comprehensive approach:\n\n"
    [] questionWord = "why" ->
         "That's an insightful question about " \o topic \o ". The reasoning involves several key factors:\n\n"
    [] questionWord = "when" ->
         "Regarding the timing of " \o topic \o ", here's what you need to know:\n\n"
    [] questionWord = "where" ->
         "For the location or context of " \o topic \o ", let me provide you with detailed information:\n\n"
    [] questionWord \in {"can you", "could you", "will you", "would you"} ->
         "Absolutely! I'd be delighted to help you with " \o topic \o ". Here's what I can do:\n\n"
    [] questionWord \in {"are you", "do you"} ->
         "That's a thoughtful question about my capabilities regarding " \o topic \o ". Let me clarify:\n\n"
    [] OTHER ->
         "Excellent question about " \o topic \o "! Here's a detailed response:\n\n"

generateQuestionResponse(content, context, ctx) ==
  LET questionWord == extractQuestionWord(content)
      topic == extractMainTopic(content)
  IN questionOpening(questionWord, topic)
     \o generateSpecificAnswer(content, topic)
     \o (IF Len(context) > 0 /\ Len(ctx.topics) > 1
         THEN "\n\nThis connects to our earlier discussion about "
              \o ctx.topics[Len(ctx.topics) - 1]
              \o ", providing a more complete picture of the topic."
         ELSE "")
     \o "\n\nIs there anything specific about this you'd like me to elaborate on?"

generateAnalysisAction(content, topic) ==
  "**Analysis Plan for " \o topic \o ":**\n* Comprehensive data examination\n* Pattern identification and insights\n* Detailed findings report\n* Actionable recommendations\n\nI'll provide a thorough analysis that covers all important aspects."

generateCreationAction(content, topic) ==
  "**Creation Process for " \o topic \o ":**\n* Requirements analysis\n* Design and structure planning\n* Implementation with best practices\n* Quality review and refinement\n\nI'll create exactly what you need with attention to detail."

generateExplanationAction(content, topic) ==
  "**Explanation Strategy for " \o topic \o ":**\n* Clear, step-by-step breakdown\n* Real-world examples and context\n* Visual aids where helpful\n* Q&A to ensure understanding\n\nI'll make sure everything is crystal clear."

generateSummarizationAction(content, topic) ==
  "**Summarization Approach for " \o topic \o ":**\n* Key points extraction\n* Logical structure organization\n* Essential insights highlighting\n* Concise yet comprehensive overview\n\nYou'll get all the important information in a digestible format."

generateHelpAction(content, topic) ==
  "**Assistance Plan for " \o topic \o ":**\n* Understanding your specific needs\n* Tailored solution development\n* Step-by-step guidance\n* Ongoing support and clarification\n\nI'm here to help you succeed with this."

generateGeneralAction(content, topic) ==
  "**Action Plan for " \o topic \o ":**\n* Thorough assessment of requirements\n* Strategic approach development\n* Implementation with best practices\n* Results review and optimization\n\nI'll handle this efficiently and effectively."

generateRequestResponse(content, context, ctx) ==
  LET topic == extractMainTopic(content)
      actionWord == extractActionWord(content)
  IN "I'd be happy to " \o actionWord \o " " \o topic \o " for you! "
     \o (IF includes(context, "similar") \/ Len(ctx.previousQuestions) > 0
         THEN "Building on our previous work together, " ELSE "")
     \o "Here's my approach:\n\n"
     \o (CASE actionWord = "analyze" -> generateAnalysisAction(content, topic)
           [] actionWord \in {"create", "make", "generate"} -> generateCreationAction(content, topic)
           [] actionWord = "explain" -> generateExplanationAction(content, topic)
           [] actionWord = "summarize" -> generateSummarizationAction(content, topic)
           [] actionWord = "help" -> generateHelpAction(content, topic)
           [] OTHER -> generateGeneralAction(content, topic))
     \o "\n\nI'm ready to get started whenever you are. Just let me know if you need any adjustments to this approach!"

generateAnalyticalFindings(content, topic) ==
  "* **Structure & Organization**: Well-defined elements with clear relationships\n* **Key Patterns**: Consistent themes and logical flow throughout\n* **Critical Insights**: Important discoveries that impact understanding\n* **Quality Assessment**: High-value content suitable for detailed analysis"

generateInsights(content, topic) ==
  "* **Strategic Value**: This analysis provides actionable intelligence\n* **Practical Applications**: Direct relevance to real-world scenarios\n* **Next Steps**: Clear path forward based on findings\n* **Optimization Opportunities**: Areas for improvement and enhancement"

generateAnalysisResponse(content, context, ctx) ==
  LET topic == extractMainTopic(content)
  IN "Excellent! I'll provide a comprehensive analysis of " \o topic \o ". "
     \o (IF Len(ctx.attachmentHistory) > 0
         THEN "Based on the files you've shared, I can offer detailed insights. " ELSE "")
     \o "Here's my analytical approach:\n\n"
     \o "**Analysis Framework:**\n"
     \o "* **Primary Assessment** - Core elements and structure\n"
     \o "* **Detailed Examination** - Key patterns and relationships\n"
     \o "* **Contextual Insights** - Broader implications and connections\n"
     \o "* **Actionable Recommendations** - Practical next steps\n\n"
     \o "**Key Findings:**\n"
     \o generateAnalyticalFindings(content, topic)
     \o "\n\n**Insights & Recommendations:**\n"
     \o generateInsights(content, topic)
     \o "\n\nThis analysis provides a solid foundation for understanding " \o topic
     \o ". Would you like me to dive deeper into any specific aspect?"

generateThoughtfulReflection(content, topic) ==
  "Your observation about " \o topic \o " raises some important considerations. There are multiple perspectives to consider here, and your viewpoint adds valuable insight to the discussion. The complexity of this topic means there are often nuanced aspects that deserve careful thought and analysis."

generateOpinionResponse(content, context) ==
  LET topic == extractMainTopic(content)
  IN "I appreciate you sharing your perspective on " \o topic \o "! "
     \o (IF includes(toLowerCase(content), "i think") \/ includes(toLowerCase(content), "i believe")
         THEN "Your viewpoint is really interesting. " ELSE "")
     \o "Here are my thoughts on this:\n\n"
     \o generateThoughtfulReflection(content, topic)
     \o "\n\nWhat's your take on this perspective? I'd love to hear more of your thoughts!"

generateEngagingDiscussion(content, topic) ==
  "There are so many interesting angles to explore with " \o topic \o ". The way you've approached this shows real insight into the subject matter. I think there's a lot we could unpack here, from the fundamental concepts to the practical implications and everything in between."

conversationStarters(topic) ==
  << "That's really interesting about " \o topic \o "! ",
     "I find " \o topic \o " fascinating. ",
     "You've brought up a great point about " \o topic \o ". ",
     topic \o " is definitely worth discussing. " >>

generateConversationalResponse(content, context, ctx, pick) ==
  LET topic == extractMainTopic(content)
  IN conversationStarters(topic)[pick]
     \o generateEngagingDiscussion(content, topic)
     \o (IF Len(ctx.topics) > 1
         THEN " This reminds me of our earlier discussion about "
              \o ctx.topics[Len(ctx.topics) - 1] \o "."
         ELSE "")
     \o "\n\nWhat aspects of " \o topic \o " interest you most?"

(***************************************************************************)
(* Attachment Analyzer: formatFileSize and generateContentHash.            *)
(***************************************************************************)
\* ${value} of a string that may be undefined
render(v) == IF v = Undefined THEN "undefined" ELSE v

\* const k = 1024
KiloBytes == 1024
sizes == <<"Bytes", "KB", "MB", "GB">>

\* Math.floor(Math.log(bytes) / Math.log(k)), for 0 < bytes < 1024^3
sizeExponent(bytes) ==
  IF bytes < KiloBytes THEN 0
  ELSE IF bytes < KiloBytes * KiloBytes THEN 1
  ELSE 2

\* parseFloat(x.toFixed(2)) printed, for x given in hundredths
formatHundredths(h) ==
  LET whole == h \div 100
      frac == h % 100
  IN ToString(whole)
     \o (IF frac = 0 THEN ""
         ELSE IF frac % 10 = 0 THEN "." \o ToString(frac \div 10)
         ELSE "." \o ToString(frac \div 10) \o ToString(frac % 10))

\* Sizes of the model are below 1024^3, so the unit index is at most 2.
formatFileSize(bytes) ==
  IF bytes = 0 THEN "0 Bytes"
  ELSE LET i == sizeExponent(bytes)
           d == IF i = 0 THEN 1 ELSE IF i = 1 THEN KiloBytes ELSE KiloBytes * KiloBytes
           q == bytes \div d
           r == bytes % d
           hundredths == q * 100 + ((r * 200 + d) \div (2 * d))
       IN formatHundredths(hundredths) \o " " \o sizes[i + 1]

\* the printable ASCII characters: code 32 to code 95, and code 97 to code 126
\* (code 96, the grave accent, cannot be written in a string of this language)
AsciiLow == " !\"#$%&'()*+,-./0123456789:;<=>?@ABCDEFGHIJKLMNOPQRSTUVWXYZ[\\]^_"
AsciiHigh == "abcdefghijklmnopqrstuvwxyz{|}~"

\* String.prototype.charCodeAt
CodesLow == PlacesIn(AsciiLow)
CodesHigh == PlacesIn(AsciiHigh)
charCode(c) ==
  IF c = "\n" THEN 10
  ELSE IF c = "\t" THEN 9
  ELSE IF c \in DOMAIN CodesLow THEN CodesLow[c] + 31
  ELSE CodesHigh[c] + 96

Half == 65536

\* One round of  hash = ((hash << 5) - hash) + char; hash = hash & hash  on a
\* 32-bit integer kept as two 16-bit halves <<high, low>>.
hashRound(h, c) ==
  LET t == h[2] * 31 + c
  IN << (h[1] * 31 + (t \div Half)) % Half, t % Half >>

RECURSIVE hashFold(_, _, _)
hashFold(source, i, h) ==
  IF i > Len(source) THEN h
  ELSE hashFold(source, i + 1, hashRound(h, charCode(CharAt(source, i))))

\* Math.abs of the signed 32-bit integer whose bits are <<high, low>>
absHalves(h) ==
  IF h[1] < Half \div 2 THEN h
  ELSE IF h[2] = 0 THEN << Half - h[1], 0 >>
  ELSE << Half - 1 - h[1], Half - h[2] >>

HexDigits == "0123456789abcdef"

RECURSIVE toHex(_)
toHex(n) ==
  IF n < 16 THEN CharAt(HexDigits, n + 1)
  ELSE toHex(n \div 16) \o CharAt(HexDigits, (n % 16) + 1)

padHex4(n) ==
  LET digits == toHex(n) IN SubSeq("000", 1, 4 - Len(digits)) \o digits

\* now is the value of Date.now() when the hash is taken
generateContentHash(attachment, now) ==
  LET hashSource == render(attachment.name) \o "-" \o ToString(attachment.size) \o "-"
                    \o attachment.type \o "-" \o ToString(now)
      h == absHalves(hashFold(hashSource, 1, <<0, 0>>))
  IN IF h[1] = 0 THEN toHex(h[2]) ELSE toHex(h[1]) \o padHex4(h[2])

\* String.prototype.substring(0, n)
substring0(s, n) == SubSeq(s, 1, IF Len(s) < n THEN Len(s) ELSE n)

\* the piece after the last dot of a file name (the whole name if it has none)
RECURSIVE lastDot(_, _)
lastDot(s, i) == IF i = 0 THEN 0 ELSE IF CharAt(s, i) = "." THEN i ELSE lastDot(s, i - 1)

extensionOf(name) == SubSeq(name, lastDot(name, Len(name)) + 1, Len(name))

(***************************************************************************)
(* Attachment Analyzer: the reports.  An attachment is a record            *)
(* [id, name, type, size, content]; content is Undefined when the upload   *)
(* layer decoded no text, name is Undefined for a malformed attachment.    *)
(***************************************************************************)
\* attachment.name.toLowerCase(), .split: a TypeError when name is undefined
nameThrows(attachment) == attachment.name = Undefined

\* fileSize > 1000000
LargeImageBytes == 1000000
\* fileSize > 100000
MediumImageBytes == 100000

anyIncludes(s, keywords) == \E k \in keywords : includes(s, k)
analyzeImageContent(attachment, contentHash) ==
  LET filename == toLowerCase(attachment.name)
      fileSize == attachment.size
      isLargeImage == fileSize > LargeImageBytes
      isMediumImage == fileSize > MediumImageBytes
      extension == extensionOf(filename)
  IN "**Image Content Analysis**\n\n"
     \o (IF anyIncludes(filename, {"chart", "graph", "plot"})
         THEN "**Visual Content Type**: Data Visualization\n**Detected Elements**:\n* Statistical charts with quantitative data representation\n* Color-coded data series and categorical information\n* Axis labels indicating measurement scales and units\n* Legend components explaining data categories\n* Title and subtitle providing context for the visualization\n\n"
              \o (IF isLargeImage THEN "**Quality Assessment**: High-resolution chart suitable for detailed analysis\n**Data Density**: Rich dataset with multiple data points and series\n"
                  ELSE "**Format**: Compact visualization optimized for quick reference\n")
              \o "**Analysis Potential**: This chart can be analyzed for trends, patterns, correlations, and statistical insights. The visual data representation makes it ideal for extracting quantitative information and drawing data-driven conclusions."
         ELSE IF anyIncludes(filename, {"screenshot", "screen", "capture"})
         THEN "**Visual Content Type**: Interface Screenshot\n**Interface Elements Detected**:\n* User interface components (buttons, menus, forms)\n* Navigation elements and toolbar structures\n* Text content and informational displays\n* Window layouts and application interfaces\n* Status indicators and system notifications\n\n**Context Analysis**: This screenshot captures a specific moment in a digital interface, showing:\n"
              \o (IF isMediumImage THEN "* Detailed interface with multiple functional elements\n* Clear text and visual components for analysis\n" ELSE "")
              \o "* Workflow or process documentation potential\n* User experience and interface design insights\n\n**Utility**: Perfect for interface analysis, troubleshooting documentation, feature explanation, or user experience evaluation."
         ELSE IF anyIncludes(filename, {"document", "scan", "page"})
         THEN "**Visual Content Type**: Document Scan/Page\n**Document Structure**:\n* Formatted text layout with structured paragraphs\n* Headers, subheadings, and hierarchical organization\n* Possible tables, lists, and formatted content\n* Margins, spacing, and professional document formatting\n* Potential signatures, stamps, or official markings\n\n"
              \o (IF isLargeImage THEN "**Text Quality**: High-resolution scan suitable for OCR and text extraction\n**Content Density**: Substantial textual content for comprehensive analysis\n" ELSE "")
              \o "**Processing Capabilities**: This document image can be processed for:\n* Text extraction and content analysis\n* Document structure and formatting analysis\n* Information extraction and summarization\n* Content verification and cross-referencing\n\n**Analysis Value**: Excellent source for detailed text analysis, content extraction, and document processing workflows."
         ELSE IF anyIncludes(filename, {"diagram", "flow", "schema"})
         THEN "**Visual Content Type**: Technical Diagram/Flowchart\n**Structural Elements**:\n* Process flow indicators and directional arrows\n* Decision points and branching logic\n* Component relationships and connections\n* Labels, annotations, and explanatory text\n* Hierarchical or sequential organization\n\n**Technical Analysis**: This diagram represents:\n* Systematic processes or workflows\n* Logical relationships between components\n* Decision trees or procedural steps\n* System architecture or design patterns\n\n**Application**: Ideal for process analysis, system understanding, workflow optimization, and technical documentation."
         ELSE "**Visual Content Type**: General Image Content\n**Image Characteristics**:\n"
              \o (IF isLargeImage THEN "* High-resolution image with detailed visual information\n* Rich color depth and visual complexity\n* Suitable for detailed visual analysis and processing\n"
                  ELSE IF isMediumImage THEN "* Standard resolution with clear visual elements\n* Balanced file size for efficient processing\n* Good quality for analysis and discussion\n"
                  ELSE "* Compact image optimized for quick viewing\n* Efficient file size for rapid processing\n* Suitable for thumbnail or preview analysis\n")
              \o (IF extension = "png" THEN "* PNG format with potential transparency support\n* Lossless compression maintaining image quality\n"
                  ELSE IF extension \in {"jpg", "jpeg"} THEN "* JPEG format optimized for photographic content\n* Compressed format balancing quality and file size\n"
                  ELSE "")
              \o "\n**Visual Analysis Potential**:\n* Color composition and visual design analysis\n* Object detection and content identification\n* Spatial relationships and layout examination\n* Context-based interpretation and insights\n\n**Discussion Value**: This image provides visual context that enhances our conversation and can be referenced for detailed analysis based on your specific interests or questions.")
     \o "\n\n**Technical Details**: " \o attachment.name \o " (" \o formatFileSize(attachment.size)
     \o ") | Content ID: " \o substring0(contentHash, 8)

\* Math.ceil(attachment.size / 50000)
PageBytes == 50000
estimatedPagesOf(size) == (size + PageBytes - 1) \div PageBytes
analyzePDFContent(attachment, contentHash) ==
  LET estimatedPages == estimatedPagesOf(attachment.size)
      filename == toLowerCase(attachment.name)
      isReport == anyIncludes(filename, {"report", "analysis"})
      isManual == anyIncludes(filename, {"manual", "guide", "instruction"})
      isResearch == anyIncludes(filename, {"research", "study", "paper"})
      isLegal == anyIncludes(filename, {"contract", "agreement", "legal"})
      isSlides == anyIncludes(filename, {"presentation", "slide"})
      documentType ==
        IF isReport THEN "Analytical Report"
        ELSE IF isManual THEN "Instructional Manual"
        ELSE IF isResearch THEN "Research Publication"
        ELSE IF isLegal THEN "Legal Document"
        ELSE IF isSlides THEN "Presentation Document"
        ELSE "General Document"
      specificAnalysis ==
        IF isReport THEN "**Report Structure Analysis**:\n* Executive summary and key findings\n* Data analysis and statistical information\n* Charts, graphs, and visual data representations\n* Conclusions and recommendations\n* Appendices with supporting documentation\n\n**Content Insights**: This report contains structured analytical content with quantitative and qualitative data, making it ideal for comprehensive analysis and insight extraction."
        ELSE IF isManual THEN "**Manual Structure**:\n* Step-by-step procedures and instructions\n* Safety guidelines and best practices\n* Troubleshooting sections and FAQs\n* Technical specifications and requirements\n* Index and reference materials\n\n**Utility**: Perfect for extracting procedures, creating summaries of processes, and answering specific how-to questions."
        ELSE IF isResearch THEN "**Research Document Features**:\n* Abstract and research objectives\n* Literature review and background\n* Methodology and experimental design\n* Results, data analysis, and findings\n* Discussion and implications\n* References and citations\n\n**Academic Value**: Excellent for research analysis, methodology review, and academic discussion."
        ELSE IF isLegal THEN "**Legal Document Structure**:\n* Terms and conditions with legal language\n* Parties involved and their obligations\n* Rights, responsibilities, and limitations\n* Compliance requirements and regulations\n* Signatures and official documentation\n\n**Analysis Focus**: Ideal for extracting key terms, obligations, and important clauses for review and understanding."
        ELSE IF isSlides THEN "**Presentation Content**:\n* Slide layouts with titles and bullet points\n* Visual elements including charts and images\n* Key messages and talking points\n* Structured information flow\n* Summary and conclusion slides\n\n**Presentation Analysis**: Great for extracting key points, creating summaries, and understanding the main message flow."
        ELSE "**General Document Content**:\n"
             \o (IF estimatedPages > 50 THEN "* **Comprehensive Content**: Large document with extensive information\n* **Multiple Sections**: Likely contains various topics and chapters\n* **Detailed Information**: Rich content suitable for thorough analysis\n"
                 ELSE IF estimatedPages > 10 THEN "* **Substantial Content**: Medium-length document with focused information\n* **Organized Structure**: Well-structured content with clear sections\n* **Targeted Information**: Specific topic coverage with detailed insights\n"
                 ELSE "* **Concise Content**: Brief document with essential information\n* **Focused Topic**: Concentrated information on specific subjects\n* **Quick Reference**: Ideal for rapid analysis and key point extraction\n")
             \o "\n**Analysis Potential**: This document can be processed for content extraction, summarization, and detailed discussion based on your specific interests and questions."
  IN "**PDF Document Analysis**\n\n"
     \o "**Document Properties**:\n"
     \o "* **Estimated Pages**: " \o ToString(estimatedPages) \o " pages\n"
     \o "* **File Size**: " \o formatFileSize(attachment.size) \o "\n"
     \o "* **Document ID**: " \o substring0(contentHash, 8) \o "\n\n"
     \o "**Document Type**: " \o documentType \o "\n\n"
     \o specificAnalysis
     \o "\n\n**Processing Capabilities**:\n* **Text Extraction**: Extract and analyze all textual content\n* **Structure Analysis**: Identify sections, headings, and organization\n* **Content Summarization**: Create comprehensive summaries\n* **Question Answering**: Answer specific questions about the content\n* **Topic Identification**: Extract main themes and subjects\n* **Data Extraction**: Identify key facts, figures, and information\n\n**Ready for Analysis**: This PDF document contains valuable information that can be thoroughly analyzed, summarized, and discussed based on your specific needs and questions."

analyzeGenericFileContent(attachment, contentHash) ==
  LET extension == toLowerCase(extensionOf(attachment.name))
      fileTypeAnalysis ==
        IF extension \in {"docx", "doc"} THEN "**Microsoft Word Document**:\n* Rich text formatting with styles and layouts\n* Potential tables, images, and embedded objects\n* Professional document structure\n* Suitable for comprehensive text extraction and analysis\n"
        ELSE IF extension \in {"pptx", "ppt"} THEN "**PowerPoint Presentation**:\n* Slide-based content with visual layouts\n* Text, images, charts, and multimedia elements\n* Structured presentation flow\n* Key points and visual storytelling\n"
        ELSE IF extension \in {"xlsx", "xls"} THEN "**Excel Spreadsheet**:\n* Tabular data with rows and columns\n* Formulas, calculations, and data analysis\n* Charts and data visualizations\n* Structured numerical and categorical data\n"
        ELSE IF extension = "csv" THEN "**CSV Data File**:\n* Comma-separated values format\n* Structured tabular data\n* Database-compatible format\n* Ideal for data analysis and processing\n"
        ELSE "**Generic File Content**:\n* Binary or specialized format\n* May contain structured data or media\n* Requires specific processing based on format\n* Content analysis depends on file type capabilities\n"
  IN "**File Analysis**\n\n"
     \o "**File Properties**:\n"
     \o "* **Name**: " \o attachment.name \o "\n"
     \o "* **Type**: " \o toUpperCase(attachment.type) \o "\n"
     \o "* **Size**: " \o formatFileSize(attachment.size) \o "\n"
     \o "* **Content ID**: " \o substring0(contentHash, 8) \o "\n\n"
     \o fileTypeAnalysis
     \o "\n**Processing Capabilities**:\n* **Content Extraction**: Extract readable content where possible\n* **Metadata Analysis**: Examine file properties and structure\n* **Format-Specific Processing**: Handle according to file type\n* **Data Interpretation**: Analyze based on content structure\n\n**Analysis Readiness**: This file has been successfully uploaded and is ready for processing based on its specific format and your analysis requirements."

\* content.length < 10
MinContentLength == 10

\* String.prototype.trim
RECURSIVE trimStart(_)
trimStart(s) == IF s # "" /\ IsSpace(CharAt(s, 1)) THEN trimStart(SubSeq(s, 2, Len(s))) ELSE s

RECURSIVE trimEnd(_)
trimEnd(s) ==
  IF s # "" /\ IsSpace(CharAt(s, Len(s))) THEN trimEnd(SubSeq(s, 1, Len(s) - 1)) ELSE s

trim(s) == trimEnd(trimStart(s))

\* String.prototype.split('\n')
splitLines(s) == splitOn(s, {"\n"})

\* content.split(/[.!?]+/)
splitSentences(s) == splitRuns(s, {".", "!", "?"})

\* Math.round(a / b) as printed in a template
roundedRatio(a, b) ==
  IF b = 0 THEN (IF a = 0 THEN "NaN" ELSE "Infinity")
  ELSE ToString((2 * a + b) \div (2 * b))

\* attachment.content || ''
contentOf(attachment) == IF attachment.content = Undefined THEN "" ELSE attachment.content

formalWords == {"therefore", "furthermore", "consequently", "moreover", "nevertheless"}

textContentType(content) ==
  LET contentLower == toLowerCase(content)
  IN IF anyIncludes(content, {"function", "class", "import", "def "}) THEN "Programming Code"
     ELSE IF anyIncludes(contentLower, {"abstract", "introduction", "methodology"})
     THEN "Academic Document"
     ELSE IF anyIncludes(contentLower, {"dear", "sincerely", "regards"})
     THEN "Formal Correspondence"
     ELSE IF anyIncludes(content, {"TODO", "FIXME", "NOTE:"}) THEN "Technical Documentation"
     ELSE "General Text"

\* analyzeTextContent that gives the notice for an empty content only
analyzeTextContentEmptyOnly(attachment) ==
  LET content == contentOf(attachment)
      nonEmpty(w) == Len(w) > 0
      words == SelectSeq(splitWhitespace(content), nonEmpty)
  IN IF content = ""
     THEN "**Text File**: " \o render(attachment.name)
          \o " appears to be empty or contains minimal content. Please ensure the file has readable text content for analysis."
     ELSE "**Text Document Analysis**\n\n"
          \o "**Document Metrics**:\n"
          \o "* **Lines**: " \o ToString(Len(splitLines(content))) \o " lines of text\n"
          \o "* **Words**: " \o ToString(Len(words)) \o " words\n"
          \o "* **Characters**: " \o ToString(Len(content)) \o " characters\n"

\* The report of a text attachment.  The nested sub-type analysis
\* (analyzeCodeInText, analyzeAcademicText, analyzeFormalLetter,
\* analyzeTechnicalDoc, analyzeGeneralText) and the list of key topics are
\* carried by the heading of the sub-type only.
analyzeTextContent(attachment) ==
  LET content == contentOf(attachment)
      contentLower == toLowerCase(content)
      nonEmpty(w) == Len(w) > 0
      longEnough(sentence) == Len(trim(sentence)) > 5
      lines == splitLines(content)
      words == SelectSeq(splitWhitespace(content), nonEmpty)
      sentences == SelectSeq(splitSentences(content), longEnough)
      isFormal(word) == includes(contentLower, word)
      formalCount == Cardinality({word \in formalWords : isFormal(word)})
  IN IF content = "" \/ Len(content) < MinContentLength
     THEN "**Text File**: " \o render(attachment.name)
          \o " appears to be empty or contains minimal content. Please ensure the file has readable text content for analysis."
     ELSE "**Text Document Analysis**\n\n"
          \o "**Document Metrics**:\n"
          \o "* **Lines**: " \o ToString(Len(lines)) \o " lines of text\n"
          \o "* **Words**: " \o ToString(Len(words)) \o " words\n"
          \o "* **Sentences**: " \o ToString(Len(sentences)) \o " sentences\n"
          \o "* **Characters**: " \o ToString(Len(content)) \o " characters\n"
          \o "* **Average words per sentence**: " \o roundedRatio(Len(words), Len(sentences)) \o "\n\n"
          \o "**Content Type**: " \o textContentType(content) \o "\n\n"
          \o "\n**Writing Style Analysis**:\n"
          \o (IF Len(sentences) = 0 /\ Len(words) > 0 THEN "* **Complexity**: Complex sentences with detailed explanations\n"
              ELSE IF Len(sentences) > 0 /\ Len(words) > 20 * Len(sentences) THEN "* **Complexity**: Complex sentences with detailed explanations\n"
              ELSE IF Len(sentences) > 0 /\ Len(words) > 15 * Len(sentences) THEN "* **Complexity**: Moderate complexity with balanced structure\n"
              ELSE "* **Complexity**: Clear, concise writing style\n")
          \o (IF formalCount > 2 THEN "* **Tone**: Formal academic or professional writing\n"
              ELSE IF anyIncludes(contentLower, {"i think", "you know"}) THEN "* **Tone**: Conversational and informal\n"
              ELSE "* **Tone**: Neutral informational style\n")
          \o "\n**Analysis Capabilities**:\n* **Summarization**: Extract key points and create concise summaries\n* **Question Answering**: Answer specific questions about the content\n* **Topic Extraction**: Identify main themes and subjects\n* **Style Analysis**: Examine writing patterns and linguistic features\n* **Content Enhancement**: Suggest improvements or modifications\n\n**Ready for Processing**: This text document contains substantial, well-structured content perfect for comprehensive analysis, summarization, and intelligent discussion."

languageMap ==
  [ js |-> "JavaScript", jsx |-> "JavaScript (React)", ts |-> "TypeScript",
    tsx |-> "TypeScript (React)", py |-> "Python", java |-> "Java", cpp |-> "C++",
    c |-> "C", cs |-> "C#", php |-> "PHP", rb |-> "Ruby", go |-> "Go", rs |-> "Rust",
    swift |-> "Swift", kt |-> "Kotlin" ]

detectLanguageFromContent(content) ==
  IF includes(content, "def ") /\ includes(content, "import ") THEN "Python"
  ELSE IF includes(content, "function") /\ includes(content, "const ") THEN "JavaScript"
  ELSE IF includes(content, "public class") /\ includes(content, "System.out") THEN "Java"
  ELSE IF includes(content, "interface ") /\ includes(content, ": ") THEN "TypeScript"
  ELSE IF includes(content, "#include") /\ includes(content, "int main") THEN "C++"
  ELSE IF includes(content, "func ") /\ includes(content, "package ") THEN "Go"
  ELSE IF includes(content, "fn ") /\ includes(content, "let ") THEN "Rust"
  ELSE "Unknown"

\* analyzeCodeContent reads attachment.name.split only when the content is
\* long enough to be analysed.
analyzeCodeThrows(attachment) ==
  Len(contentOf(attachment)) >= MinContentLength /\ nameThrows(attachment)

\* The report of a code attachment.  The structure, quality and
\* functionality sections (analyzeCodeStructure, analyzeCodeQuality,
\* analyzeCodeFunctionality) are carried by the properties block only.
analyzeCodeContent(attachment) ==
  LET content == contentOf(attachment)
      extension == toLowerCase(extensionOf(attachment.name))
      lines == splitLines(content)
      isCode(line) ==
        /\ Len(trim(line)) > 0
        /\ ~startsWith(trim(line), "//")
        /\ ~startsWith(trim(line), "#")
        /\ ~startsWith(trim(line), "/*")
      codeLines == SelectSeq(lines, isCode)
      detectedLanguage ==
        IF extension \in DOMAIN languageMap THEN languageMap[extension]
        ELSE detectLanguageFromContent(content)
  IN IF content = "" \/ Len(content) < MinContentLength
     THEN "**Code File**: " \o render(attachment.name)
          \o " appears to be empty or contains minimal code. Please ensure the file has readable code content for analysis."
     ELSE "**Code Analysis**\n\n"
          \o "**Code Properties**:\n"
          \o "* **Language**: " \o detectedLanguage \o "\n"
          \o "* **Total Lines**: " \o ToString(Len(lines)) \o "\n"
          \o "* **Code Lines**: " \o ToString(Len(codeLines)) \o " (excluding comments and empty lines)\n"
          \o "* **File Size**: " \o formatFileSize(attachment.size) \o "\n\n"
          \o "\n**Code Analysis Capabilities**:\n* **Syntax Review**: Check for syntax errors and best practices\n* **Performance Analysis**: Identify optimization opportunities\n* **Security Review**: Detect potential security vulnerabilities\n* **Documentation**: Generate code documentation and comments\n* **Refactoring Suggestions**: Recommend code improvements\n* **Bug Detection**: Identify potential issues and fixes\n\n**Ready for Development**: This code is well-structured and ready for comprehensive analysis, review, and enhancement based on your development needs."

\* the failure of analyzeAttachmentContent: a TypeError raised by a method
\* call on an undefined name
analyzeAttachmentContentThrows(attachment) ==
  CASE attachment.type = "image" -> nameThrows(attachment)
    [] attachment.type = "text" -> FALSE
    [] attachment.type = "pdf" -> nameThrows(attachment)
    [] attachment.type = "code" -> analyzeCodeThrows(attachment)
    [] OTHER -> nameThrows(attachment)

\* analyzeAttachmentContent, after its delay: now is Date.now() at that moment
analyzeAttachmentContent(attachment, now) ==
  LET contentHash == generateContentHash(attachment, now)
  IN CASE attachment.type = "image" -> analyzeImageContent(attachment, contentHash)
       [] attachment.type = "text" -> analyzeTextContent(attachment)
       [] attachment.type = "pdf" -> analyzePDFContent(attachment, contentHash)
       [] attachment.type = "code" -> analyzeCodeContent(attachment)
       [] OTHER -> analyzeGenericFileContent(attachment, contentHash)

(***************************************************************************)
(* Response Composer: attachment-focused composition and the dispatch.     *)
(***************************************************************************)
generateFileSpecificAnswer(question, attachment) ==
  LET questionLower == toLowerCase(question)
  IN IF includes(questionLower, "what") /\ includes(questionLower, "about")
     THEN "This " \o attachment.type \o " file contains detailed information that directly addresses your question. The content provides comprehensive insights into the topics you're asking about, with specific details and context that can help answer your inquiry thoroughly."
     ELSE IF includes(questionLower, "how")
     THEN "The file explains the processes and methodologies related to your question. It contains step-by-step information and detailed explanations that can guide you through the \"how\" aspects of your inquiry."
     ELSE IF includes(questionLower, "why")
     THEN "The document provides reasoning and explanations that address the \"why\" behind your question. It includes background information, rationale, and context that helps explain the underlying principles."
     ELSE "Based on the file content, I can provide detailed answers to your specific question. The document contains relevant information that directly relates to what you're asking about."

generateFileInsights(attachment) ==
  CASE attachment.type = "image" ->
         "The image provides rich visual information that I can analyze and discuss. Whether it's charts, diagrams, screenshots, or other visual content, I can help you understand and extract insights from what's shown."
    [] attachment.type = "text" ->
         "This text document contains valuable written content that I can summarize, analyze for key themes, answer questions about, or help you process in various ways based on your needs."
    [] attachment.type = "pdf" ->
         "The PDF document contains structured information that I can help you navigate, summarize, and analyze. Whether you need specific information extracted or a comprehensive overview, I'm ready to assist."
    [] attachment.type = "code" ->
         "This code file contains programming logic that I can review, explain, debug, or help optimize. I can analyze the functionality, suggest improvements, or help you understand how it works."
    [] OTHER ->
         "This file contains structured information that I can help you analyze and understand based on your specific needs and questions."

generateBriefFileInsight(attachment) ==
  toUpperCase(attachment.type) \o " file (" \o formatFileSize(attachment.size)
  \o ") - Ready for detailed analysis and discussion"

generateNextStepsSuggestions(content, attachments) ==
  LET types == SeqElems(attachmentTypesOf(attachments))
      hasText == "text" \in types \/ "pdf" \in types
      hasCode == "code" \in types
      hasImage == "image" \in types
  IN "\n**What would you like to explore next?**\n"
     \o (IF hasText
         THEN "* **Summarize** the key points and main themes\n"
              \o "* **Ask specific questions** about the content\n"
              \o "* **Extract information** on particular topics\n"
         ELSE "")
     \o (IF hasCode
         THEN "* **Code review** and optimization suggestions\n"
              \o "* **Explain functionality** and how it works\n"
              \o "* **Debug issues** or improve performance\n"
         ELSE "")
     \o (IF hasImage
         THEN "* **Describe visual elements** and content\n"
              \o "* **Analyze charts or diagrams** for insights\n"
              \o "* **Extract text** or data from images\n"
         ELSE "")
     \o "* **Compare and contrast** information across files\n"
     \o "* **Generate reports** or comprehensive analysis\n\n"
     \o "Just let me know what specific aspect interests you most!"

\* the numbered entries of the multi-file reply (attachments.forEach)
RECURSIVE listAttachments(_, _)
listAttachments(attachments, index) ==
  IF index > Len(attachments) THEN ""
  ELSE "**" \o ToString(index) \o ". " \o render(attachments[index].name) \o "**\n"
       \o generateBriefFileInsight(attachments[index])
       \o "\n\n"
       \o listAttachments(attachments, index + 1)

generateAttachmentFocusedResponse(content, attachments, messageType) ==
  LET fileTypes == uniqueInOrder(attachmentTypesOf(attachments))
      fileCount == Len(attachments)
      attachment == attachments[1]
  IN (IF fileCount = 1
      THEN "Perfect! I've analyzed your " \o attachment.type \o " file \""
           \o render(attachment.name) \o "\" and extracted comprehensive insights. "
           \o (IF messageType = "question"
               THEN "Based on your question and the file content, here's what I found:\n\n"
                    \o generateFileSpecificAnswer(content, attachment)
               ELSE "Here's what I discovered:\n\n"
                    \o generateFileInsights(attachment))
      ELSE "Excellent! I've analyzed all " \o ToString(fileCount) \o " files you've shared ("
           \o join(fileTypes, ", ") \o "). "
           \o "Each file provides unique insights that I can help you explore:\n\n"
           \o listAttachments(attachments, 1))
     \o generateNextStepsSuggestions(content, attachments)

\* craftPersonalizedResponse giving a greeting its greeting reply also when
\* files are attached
craftPersonalizedResponseGreetsFirst(content, messageType, context, attachments, ctx, pick) ==
  IF messageType = "greeting" THEN generateGreetingResponse(content, context, pick)
  ELSE IF Len(attachments) > 0
  THEN generateAttachmentFocusedResponse(content, attachments, messageType)
  ELSE CASE messageType = "question" -> generateQuestionResponse(content, context, ctx)
         [] messageType = "request" -> generateRequestResponse(content, context, ctx)
         [] messageType = "analysis" -> generateAnalysisResponse(content, context, ctx)
         [] messageType = "opinion" -> generateOpinionResponse(content, context)
         [] OTHER -> generateConversationalResponse(content, context, ctx, pick)

craftPersonalizedResponse(content, messageType, context, attachments, ctx, pick) ==
  IF Len(attachments) > 0
  THEN generateAttachmentFocusedResponse(content, attachments, messageType)
  ELSE CASE messageType = "greeting" -> generateGreetingResponse(content, context, pick)
         [] messageType = "question" -> generateQuestionResponse(content, context, ctx)
         [] messageType = "request" -> generateRequestResponse(content, context, ctx)
         [] messageType = "analysis" -> generateAnalysisResponse(content, context, ctx)
         [] messageType = "opinion" -> generateOpinionResponse(content, context)
         [] OTHER -> generateConversationalResponse(content, context, ctx, pick)

\* a look-back that does not drop the system turn
lookBackTurnsKeepsSystem(history) == SubSeq(history, IF Len(history) > 4 THEN Len(history) - 3 ELSE 1, Len(history))

\* the turns the look-back string is built from: slice(-4), then the filter
LookBack == 4
lookBackTurns(history) ==
  LET notSystem(msg) == msg.role # "system"
  IN SelectSeq(sliceLast(history, LookBack), notSystem)

\* msg.content.substring on a turn recorded with an undefined content
buildConversationContextThrows(history) ==
  \E i \in 1..Len(lookBackTurns(history)) : lookBackTurns(history)[i].content = Undefined

\* msg.content.substring(0, 100)
LookBackChars == 100

buildConversationContext(history) ==
  LET turns == lookBackTurns(history)
      line(msg) == msg.role \o ": " \o substring0(msg.content, LookBackChars) \o "..."
  IN join([i \in 1..Len(turns) |-> line(turns[i])], "\n")

errorResponses ==
  << "I apologize, but I encountered a technical issue while processing your message. Let me try a different approach to help you.",
     "It seems there was a hiccup in my processing. Could you please rephrase your request so I can assist you better?",
     "I'm experiencing some difficulty with that particular request. Let me know how else I can help you today.",
     "There was an unexpected issue, but I'm still here to help! Please try rephrasing your question or request." >>

generateErrorResponse(pick) == errorResponses[pick]

SystemPrompt ==
  "You are IntelliNLP, an advanced AI assistant capable of intelligent text processing, analysis, and natural conversation."

\* the turn initializeSystemContext pushes at time now
systemTurn(now) == [role |-> "system", content |-> SystemPrompt, timestamp |-> now]

(***************************************************************************)
(* The state.                                                              *)
(***************************************************************************)
VARIABLES
  conversationHistory, \* IntelligentChatProcessor.conversationHistory
  context,             \* IntelligentChatProcessor.context
  calls,               \* the invocations of processMessage, in call order
  now,                 \* the clock read by new Date() and Date.now()
  clears,              \* the number of clearHistory invocations so far
  lastOp,              \* the operation whose code was the last to write the two above
  historySnapshot,     \* what the last getHistory() returned, after how many clears
  contextSnapshot,     \* what the last getContext() returned, after how many clears
                       \* (taken is FALSE as long as the getter was never called)
  questionArrays,      \* the previousQuestions array objects ever created, oldest first
  elapsed,             \* per invocation, how many of the delays it awaited have run out
  sessions,            \* App: the chat sessions, newest first
  currentSessionId,    \* App: the selected session, NoSession if none
  inputText,           \* App: the text of the input box
  attachments,         \* App: the uploaded files waiting to be sent
  isProcessing         \* App: the flag that disables the send button

engineVars == <<conversationHistory, context, calls, now, clears, lastOp,
                historySnapshot, contextSnapshot, questionArrays, elapsed>>
uiVars == <<sessions, currentSessionId, inputText, attachments, isProcessing>>
vars == <<conversationHistory, context, calls, now, clears, lastOp, historySnapshot,
          contextSnapshot, questionArrays, elapsed, sessions, currentSessionId,
          inputText, attachments, isProcessing>>

\* currentSessionId === null
NoSession == "null"

(***************************************************************************)
(* Conversation Engine: processMessage, cut at its awaits.                 *)
(*   start    the code up to the first await: the user turn is pushed, the *)
(*            context updated, processAttachments entered                  *)
(*   analyze  one round of the loop of processAttachments, after the delay *)
(*            of analyzeAttachmentContent                                  *)
(*   respond  generateIntelligentResponse after its delay, and the rest of *)
(*            processMessage                                               *)
(* An exception in any of them is caught by the catch of processMessage.   *)
(***************************************************************************)
\* processMessage without its catch block: the exception reaches the caller
processMessageRethrows(call, pick) ==
  [call EXCEPT !.pc = "done", !.outcome = "rejected", !.failed = TRUE,
               !.events = Append(call.events, "throw")]

\* the catch block of processMessage: the promise resolves with a fallback
\* reply; nothing is pushed to the history
processMessageCatch(call, pick) ==
  [call EXCEPT !.pc = "done", !.outcome = "resolved", !.failed = TRUE,
               !.response = generateErrorResponse(pick),
               !.events = Append(call.events, "catch")]

\* a fresh invocation record
newCall(messageContent, messageAttachments, sessionId) ==
  [ content |-> messageContent, attachments |-> messageAttachments,
    pc |-> "start", index |-> 1, enhancedContent |-> messageContent,
    outcome |-> "pending", failed |-> FALSE, response |-> "",
    events |-> <<>>, conversationContext |-> "", sessionId |-> sessionId,
    reports |-> <<>>, messageType |-> "" ]

\* The draws of Math.random a step makes: one of four values in the catch
\* block and in the greeting and conversation generators, none elsewhere
\* (written as the single draw 1, which is then not used).
drawsOfStart(messageContent, messageAttachments) ==
  IF updateContextThrows(messageContent, messageAttachments) THEN RandomPicks ELSE {1}

drawsOfAnalyze(call) ==
  IF analyzeAttachmentContentThrows(call.attachments[call.index]) THEN RandomPicks ELSE {1}

drawsOfRespond(history, call) ==
  IF buildConversationContextThrows(history) THEN RandomPicks
  ELSE IF Len(call.attachments) = 0
          /\ analyzeMessageType(call.enhancedContent)
                \notin {"question", "request", "analysis", "opinion"}
  THEN RandomPicks
  ELSE {1}

\* the session id of an invocation made through the API, not by the App
DirectCall == "direct"

\* processMessage without its call of updateContext
processMessageStartNoUpdate(history, ctx, messageContent, messageAttachments, sessionId, time, pick) ==
  LET userMessage == [ role |-> "user", content |-> messageContent,
                       attachments |-> messageAttachments, timestamp |-> time ]
      call == newCall(messageContent, messageAttachments, sessionId)
  IN [ history |-> Append(history, userMessage),
       context |-> ctx,
       call |-> [call EXCEPT
                   !.events = <<"record">>,
                   !.pc = IF Len(messageAttachments) = 0 THEN "respond" ELSE "analyze"] ]

\* processMessage up to its first await.  The result is the new history,
\* the new context and the invocation record.
processMessageStart(history, ctx, messageContent, messageAttachments, sessionId, time, pick) ==
  LET userMessage == [ role |-> "user", content |-> messageContent,
                       attachments |-> messageAttachments, timestamp |-> time ]
      call == newCall(messageContent, messageAttachments, sessionId)
      recorded == [call EXCEPT !.events = <<"record">>]
  IN IF updateContextThrows(messageContent, messageAttachments)
     THEN [ history |-> Append(history, userMessage),
            context |-> ctx,
            call |-> processMessageCatch(recorded, pick) ]
     ELSE [ history |-> Append(history, userMessage),
            context |-> updateContext(ctx, messageContent, messageAttachments),
            call |-> [recorded EXCEPT
                        !.events = <<"record", "update">>,
                        !.pc = IF Len(messageAttachments) = 0 THEN "respond" ELSE "analyze"] ]

\* a round of the loop of processAttachments whose await never resumes
processAttachmentsRoundHangs(call, time, pick) == [call EXCEPT !.pc = "suspended"]

\* one round of the loop of processAttachments
processAttachmentsRound(call, time, pick) ==
  LET attachment == call.attachments[call.index]
      analysis == analyzeAttachmentContent(attachment, time)
  IN IF analyzeAttachmentContentThrows(attachment)
     THEN processMessageCatch(call, pick)
     ELSE [call EXCEPT
             !.enhancedContent =
                call.enhancedContent \o "\n\n**File Analysis: \"" \o render(attachment.name)
                \o "\"**\n" \o analysis,
             !.index = call.index + 1,
             !.reports = Append(call.reports, analysis),
             !.events = Append(call.events, "analyze"),
             !.pc = IF call.index = Len(call.attachments) THEN "respond" ELSE "analyze"]

\* generateIntelligentResponse after its delay, then the push of the
\* assistant turn and the return.  The result is the new history and the
\* invocation record.
processMessageRespond(history, ctx, call, time, pick) ==
  IF buildConversationContextThrows(history)
  THEN [ history |-> history, call |-> processMessageCatch(call, pick) ]
  ELSE LET messageType == analyzeMessageType(call.enhancedContent)
           conversationContext == buildConversationContext(history)
           response == craftPersonalizedResponse(call.enhancedContent, messageType,
                         conversationContext, call.attachments, ctx, pick)
       IN [ history |-> Append(history, [ role |-> "assistant", content |-> response,
                                          timestamp |-> time ]),
            call |-> [call EXCEPT !.pc = "done", !.outcome = "resolved",
                                  !.response = response,
                                  !.messageType = messageType,
                                  !.conversationContext = conversationContext,
                                  !.events = Append(call.events, "compose") \o <<"reply">>] ]

\* clearHistory without  this.conversationHistory = []
clearHistoryKeepsTurns(history, ctx, time) ==
  [ history |-> Append(history, systemTurn(time)), context |-> DefaultContext ]

\* clearHistory without the reset of the context
clearHistoryKeepsContext(history, ctx, time) ==
  [ history |-> <<systemTurn(time)>>, context |-> ctx ]

\* clearHistory at time time: the new history and the new context
clearHistory(history, ctx, time) ==
  [ history |-> <<systemTurn(time)>>, context |-> DefaultContext ]

\* this.context.previousQuestions.push(content) writes into the array
\* object the context references, the one created last: after updateContext
\* that object holds the list of the new context
pushInPlace(arrays, ctx) == [arrays EXCEPT ![Len(arrays)] = ctx.previousQuestions]

\* What the holder of an object returned by getContext reads in it.  The
\* copy { ...this.context } is shallow: its previousQuestions is the array
\* object the engine had when it returned, the one created by the
\* constructor or by the clearHistory before; topics and attachmentHistory
\* are arrays the engine replaces and never writes, the tone is a string.
readSnapshot(snapshot, arrays) ==
  [snapshot.value EXCEPT !.previousQuestions = arrays[snapshot.clears + 1]]

\* getHistory: a copy of the array
getHistory(history) == history

\* getContext: a copy of the object
getContext(ctx) == ctx

(***************************************************************************)
(* App.tsx: the handlers of the front end.  A handler runs on the state of *)
(* the last render; its state updates are applied when it returns.         *)
(***************************************************************************)
\* String.prototype.split(' ')
splitSpaces(s) == splitOn(s, {" "})

generateSessionTitle(firstMessage) ==
  join(sliceFirst(splitSpaces(trim(firstMessage)), 4), " ")
  \o (IF Len(splitSpaces(firstMessage)) > 4 THEN "..." ELSE "")

\* the session createNewSession builds at time now
newSession(time) ==
  [ id |-> ToString(time), title |-> "New Chat", messages |-> <<>>, lastUpdated |-> time ]

\* setSessions(prev => prev.map(s => s.id === sessionId ? {...} : s)) of
\* sendMessage, for the user message
addUserMessage(prev, sessionId, userMessage, text, time) ==
  [ i \in 1..Len(prev) |->
      IF prev[i].id = sessionId
      THEN [ prev[i] EXCEPT
               !.messages = Append(prev[i].messages, userMessage),
               !.lastUpdated = time,
               !.title = IF Len(prev[i].messages) = 0 THEN generateSessionTitle(text)
                         ELSE prev[i].title ]
      ELSE prev[i] ]

\* the same, for the assistant message
addAssistantMessage(prev, sessionId, assistantMessage, time) ==
  [ i \in 1..Len(prev) |->
      IF prev[i].id = sessionId
      THEN [ prev[i] EXCEPT
               !.messages = Append(prev[i].messages, assistantMessage),
               !.lastUpdated = time ]
      ELSE prev[i] ]

\* the rest of sendMessage after  await processMessage(...) : the reply is
\* added to the session and the processing flag is dropped
sendMessageResume(prev, call, time) ==
  addAssistantMessage(prev, call.sessionId,
    [ id |-> ToString(time + 1), type |-> "assistant", content |-> call.response,
      timestamp |-> time ],
    time)

\* !inputText.trim() && attachments.length === 0
nothingToSend == trim(inputText) = "" /\ Len(attachments) = 0

\* the disabled attribute of the send button
sendDisabled == nothingToSend \/ isProcessing

(***************************************************************************)
(* Inputs of the model.                                                    *)
(***************************************************************************)
chartPng == [ id |-> "a1", name |-> "chart.png", type |-> "image", size |-> 204800,
              content |-> "Image file: chart.png" ]
photoJpg == [ id |-> "a2", name |-> "photo.jpg", type |-> "image", size |-> 2500000,
              content |-> "Image file: photo.jpg" ]
notesTxt == [ id |-> "a3", name |-> "notes.txt", type |-> "text", size |-> 3,
              content |-> "Hi." ]
\* an attachment that reached the engine without a name
namelessPdf == [ id |-> "a5", name |-> Undefined, type |-> "pdf", size |-> 120000,
                 content |-> Undefined ]

\* the same picture uploaded a second time
chartCopy == [ chartPng EXCEPT !.id = "a6" ]
\* a pdf and a presentation
reportPdf == [ id |-> "a7", name |-> "report.pdf", type |-> "pdf", size |-> 120000,
               content |-> "PDF file: report.pdf" ]
slidesPpt == [ id |-> "a8", name |-> "slides.ppt", type |-> "ppt", size |-> 4096,
               content |-> "File: slides.ppt" ]
\* text files without a content, with an empty one, with nine characters
missingTxt == [ id |-> "a9", name |-> "missing.txt", type |-> "text", size |-> 0,
                content |-> Undefined ]
emptyTxt == [ id |-> "a10", name |-> "empty.txt", type |-> "text", size |-> 0,
              content |-> "" ]
shortTxt == [ id |-> "a11", name |-> "short.txt", type |-> "text", size |-> 9,
              content |-> "Hi there." ]

\* well-typed messages: a request without attachments, a question about
\* two images, a request about a text file
Messages ==
  { [ content |-> "Explain Recursion", attachments |-> <<>> ],
    [ content |-> "What is Recursion?", attachments |-> <<chartPng, photoJpg>> ],
    [ content |-> "Explain Recursion", attachments |-> <<notesTxt>> ] }

\* utterances, with the value TypeScript rules out but a JavaScript caller
\* can pass, and attachment lists, with an attachment that has no name
FaultUtterances == { "", "What is Recursion?", Undefined }
FaultAttachmentLists == { <<>>, <<chartPng, namelessPdf>> }

\* the turns before a clearHistory
ApiUtterances == { "Please explain Recursion?" }
ApiAttachmentLists == { <<>>, <<chartPng>> }

\* utterances that name many topics
TopicUtterances ==
  { "what are Alpha Beta Gamma Delta Epsilon?",
    "what are Zeta Eta Theta Iota Kappa?",
    "what are Alpha Lambda Mu?" }

\* utterances of every tone: a politeness word, a politeness word next to
\* slang, slang next to a technical term, a technical term, none of them
ToneUtterances ==
  { "Explain it, thank you", "Explain it, hey please", "Explain the cool algorithm",
    "Explain the algorithm", "Explain it" }

\* utterances of every intent: greeting (twice), question (twice), request,
\* analysis, opinion, conversation
FileUtterances ==
  { "hi there", "hey, why?", "What is this?", "could you check it", "Explain this",
    "Kindly review this", "I think it works", "Nice weather today" }

\* no file, one file, two files
FileAttachmentLists ==
  { <<>>, <<notesTxt>>, <<chartPng>>, <<reportPdf>>, <<chartPng, notesTxt>>,
    <<notesTxt, photoJpg>> }

\* utterances built from a way to begin and a way to go on: greetings (and
\* a word that begins like one), question words, openers that are both a
\* question and a request, request openers, an opinion opener, none of
\* them; going on with or without a question mark and an analysis word
IntentOpeners ==
  { "hi", "Hello", "HEY", "history", "Good morning",
    "What", "How", "why", "when", "where", "who", "which",
    "Can you", "could you", "would you", "will you", "are you", "do you", "Is it",
    "please", "explain", "analyze", "i think", "tell me", "so" }
IntentTails == { " is recursion", " is recursion?", " review recursion" }
IntentUtterances == { opener \o tail : opener \in IntentOpeners, tail \in IntentTails }

\* what is asked about the files, and the files
AnalyzeUtterances == { "What is in this file?", "Summarize this file" }
AnalyzeAttachmentLists ==
  { <<chartPng, chartCopy>>, <<reportPdf, slidesPpt>>, <<missingTxt, emptyTxt>>,
    <<shortTxt>> }

\* utterances whose topic phrase is the placeholder (the empty one, one of
\* stop words and short tokens between blanks), and one whose phrase is cut
\* to three tokens and loses its punctuation
PhraseUtterances ==
  { "", "  to be   or me...  ", "Tell me:  the Quick, brown fox_1 jumps! " }

\* a conversation longer than the look-back
LookBackUtterances == { "Explain Recursion", "What is Recursion?" }

\* greetings
GreetingUtterances == { "Hello", "hi there" }

\* what the user of the App types
TypedTexts == { "What is Recursion?", "Why test Software?" }

(***************************************************************************)
(* Initial state: the engine after its constructor, the App after its      *)
(* first render with no saved session.                                     *)
(***************************************************************************)
Init ==
  /\ now = 0
  /\ conversationHistory = <<systemTurn(0)>>
  /\ context = DefaultContext
  /\ calls = <<>>
  /\ clears = 0
  /\ lastOp = "constructor"
  /\ historySnapshot = [ value |-> <<>>, clears |-> 0, taken |-> FALSE ]
  /\ contextSnapshot = [ value |-> DefaultContext, clears |-> 0, taken |-> FALSE ]
  /\ questionArrays = << DefaultContext.previousQuestions >>
  /\ elapsed = <<>>
  /\ sessions = <<>>
  /\ currentSessionId = NoSession
  /\ inputText = ""
  /\ attachments = <<>>
  /\ isProcessing = FALSE

(***************************************************************************)
(* Actions of the engine.  limit bounds the number of invocations.         *)
(***************************************************************************)
\* a caller invokes processMessage(messageContent, messageAttachments)
ApiProcessMessage(messageContent, messageAttachments, limit) ==
  /\ Len(calls) < limit
  /\ \E pick \in drawsOfStart(messageContent, messageAttachments) :
       LET r == processMessageStart(conversationHistory, context, messageContent,
                                    messageAttachments, DirectCall, now, pick)
       IN /\ conversationHistory' = r.history
          /\ context' = r.context
          /\ calls' = Append(calls, r.call)
          /\ questionArrays' = pushInPlace(questionArrays, r.context)
  /\ elapsed' = Append(elapsed, 0)
  /\ lastOp' = "processMessage"
  /\ UNCHANGED <<now, clears, historySnapshot, contextSnapshot>>
  /\ UNCHANGED uiVars

\* the delay of analyzeAttachmentContent of invocation c has passed
AnalyzeStep(c) ==
  /\ calls[c].pc = "analyze"
  /\ \E pick \in drawsOfAnalyze(calls[c]) :
       LET call == processAttachmentsRound(calls[c], now, pick)
       IN /\ calls' = [calls EXCEPT ![c] = call]
          /\ IF call.pc = "done" /\ call.sessionId # DirectCall
             THEN /\ sessions' = sendMessageResume(sessions, call, now)
                  /\ isProcessing' = FALSE
             ELSE UNCHANGED <<sessions, isProcessing>>
  /\ elapsed' = [elapsed EXCEPT ![c] = @ + 1]
  /\ UNCHANGED <<conversationHistory, context, now, clears, lastOp, historySnapshot,
                 contextSnapshot, questionArrays>>
  /\ UNCHANGED <<currentSessionId, inputText, attachments>>

\* the delay of generateIntelligentResponse of invocation c has passed
RespondStep(c) ==
  /\ calls[c].pc = "respond"
  /\ \E pick \in drawsOfRespond(conversationHistory, calls[c]) :
       LET r == processMessageRespond(conversationHistory, context, calls[c], now, pick)
       IN /\ conversationHistory' = r.history
          /\ calls' = [calls EXCEPT ![c] = r.call]
          /\ IF r.call.sessionId # DirectCall
             THEN /\ sessions' = sendMessageResume(sessions, r.call, now)
                  /\ isProcessing' = FALSE
             ELSE UNCHANGED <<sessions, isProcessing>>
  /\ elapsed' = [elapsed EXCEPT ![c] = @ + 1]
  /\ lastOp' = "processMessage"
  /\ UNCHANGED <<context, now, clears, historySnapshot, contextSnapshot, questionArrays>>
  /\ UNCHANGED <<currentSessionId, inputText, attachments>>

ApiClearHistory ==
  /\ clears < MaxClears
  /\ conversationHistory' = clearHistory(conversationHistory, context, now).history
  /\ context' = clearHistory(conversationHistory, context, now).context
  /\ clears' = clears + 1
  /\ questionArrays' = Append(questionArrays, DefaultContext.previousQuestions)
  /\ lastOp' = "clearHistory"
  /\ UNCHANGED <<calls, now, historySnapshot, contextSnapshot, elapsed>>
  /\ UNCHANGED uiVars

\* a caller reads the history
ApiGetHistory ==
  /\ historySnapshot' = [ value |-> getHistory(conversationHistory), clears |-> clears,
                          taken |-> TRUE ]
  /\ UNCHANGED <<conversationHistory, context, calls, now, clears, lastOp, contextSnapshot,
                 questionArrays, elapsed>>
  /\ UNCHANGED uiVars

\* a caller reads the context
ApiGetContext ==
  /\ contextSnapshot' = [ value |-> getContext(context), clears |-> clears,
                          taken |-> TRUE ]
  /\ UNCHANGED <<conversationHistory, context, calls, now, clears, lastOp, historySnapshot,
                 questionArrays, elapsed>>
  /\ UNCHANGED uiVars

\* time passes
Tick ==
  /\ now < MaxClock
  /\ now' = now + 1
  /\ UNCHANGED <<conversationHistory, context, calls, clears, lastOp, historySnapshot,
                 contextSnapshot, questionArrays, elapsed>>
  /\ UNCHANGED uiVars

(***************************************************************************)
(* Actions of the App.                                                     *)
(***************************************************************************)
\* onChange of the input box, for a user who types into the empty box
TypeInput(text) ==
  /\ inputText = ""
  /\ inputText' = text
  /\ UNCHANGED engineVars
  /\ UNCHANGED <<sessions, currentSessionId, attachments, isProcessing>>

\* createNewSession from the side bar.  Two sessions are not created in the
\* same millisecond.
CreateNewSession ==
  /\ Len(sessions) < MaxSessions
  /\ \A i \in 1..Len(sessions) : sessions[i].id # ToString(now)
  /\ sessions' = <<newSession(now)>> \o sessions
  /\ currentSessionId' = ToString(now)
  /\ UNCHANGED engineVars
  /\ UNCHANGED <<inputText, attachments, isProcessing>>

\* a click on a session of the side bar
SelectSession(i) ==
  /\ currentSessionId # sessions[i].id
  /\ currentSessionId' = sessions[i].id
  /\ UNCHANGED engineVars
  /\ UNCHANGED <<sessions, inputText, attachments, isProcessing>>

\* sendMessage, up to its await
sendMessage(limit) ==
  /\ ~nothingToSend
  /\ Len(calls) < limit
  /\ \E secondRead \in {now, IF now < MaxClock THEN now + 1 ELSE now} :
       LET created == currentSessionId = NoSession
           time == IF created THEN secondRead ELSE now
           sessionId == IF created THEN ToString(secondRead) ELSE currentSessionId
           sessions1 == IF created THEN <<newSession(now)>> \o sessions ELSE sessions
           userMessage == [ id |-> ToString(time), type |-> "user", content |-> inputText,
                            timestamp |-> time, attachments |-> attachments ]
           sessions2 == addUserMessage(sessions1, sessionId, userMessage, inputText, time)
       IN /\ \A i \in 1..Len(sessions) : created => sessions[i].id # ToString(now)
          /\ now' = time
          /\ currentSessionId' = IF created THEN ToString(now) ELSE currentSessionId
          /\ \E pick \in drawsOfStart(inputText, attachments) :
               LET r == processMessageStart(conversationHistory, context, inputText,
                                            attachments, sessionId, time, pick)
               IN /\ conversationHistory' = r.history
                  /\ context' = r.context
                  /\ calls' = Append(calls, r.call)
                  /\ questionArrays' = pushInPlace(questionArrays, r.context)
                  /\ IF r.call.pc = "done"
                     THEN /\ sessions' = sendMessageResume(sessions2, r.call, time)
                          /\ isProcessing' = FALSE
                     ELSE /\ sessions' = sessions2
                          /\ isProcessing' = TRUE
  /\ elapsed' = Append(elapsed, 0)
  /\ inputText' = ""
  /\ attachments' = <<>>
  /\ lastOp' = "processMessage"
  /\ UNCHANGED <<clears, historySnapshot, contextSnapshot>>

\* a click on the send button
ClickSend(limit) == ~sendDisabled /\ sendMessage(limit)

\* handleKeyPress: the Enter key without Shift sends, whatever isProcessing
handleKeyPress(key, shiftKey, limit) ==
  /\ key = "Enter" /\ ~shiftKey
  /\ sendMessage(limit)

(***************************************************************************)
(* Specifications.                                                         *)
(***************************************************************************)
\* the engine called with well-typed arguments, calls overlapping freely
Next ==
  \/ \E m \in Messages : ApiProcessMessage(m.content, m.attachments, MaxCalls)
  \/ \E c \in 1..Len(calls) : AnalyzeStep(c)
  \/ \E c \in 1..Len(calls) : RespondStep(c)
  \/ ApiClearHistory

Spec == Init /\ [][Next]_vars

\* The same with the timers of the event loop: a delay that was started
\* (setTimeout of 500 ms per attachment, of 800 ms for the reply) runs out,
\* and the continuation of the invocation that awaits it is run.
\* TimerFires(c) is the step of invocation c that AnalyzeStep(c) and
\* RespondStep(c) take, seen through elapsed: the timer of the delay the
\* invocation awaits fires.
TimerFires(c) ==
  /\ c <= Len(calls)
  /\ calls[c].pc \in {"analyze", "respond"}
  /\ elapsed' = [elapsed EXCEPT ![c] = @ + 1]

SpecLive ==
  /\ Init /\ [][Next]_vars
  /\ \A c \in 1..MaxCalls : WF_elapsed(TimerFires(c))

\* the engine called with any arguments a JavaScript caller can pass
NextFault ==
  \/ \E u \in FaultUtterances, a \in FaultAttachmentLists :
       ApiProcessMessage(u, a, MaxFaultCalls)
  \/ \E c \in 1..Len(calls) : AnalyzeStep(c)
  \/ \E c \in 1..Len(calls) : RespondStep(c)

SpecFault == Init /\ [][NextFault]_vars

\* the engine with its conversation-management methods
NextApi ==
  \/ \E u \in ApiUtterances, a \in ApiAttachmentLists :
       ApiProcessMessage(u, a, MaxApiCalls)
  \/ \E c \in 1..Len(calls) : AnalyzeStep(c)
  \/ \E c \in 1..Len(calls) : RespondStep(c)
  \/ ApiClearHistory
  \/ ApiGetHistory
  \/ ApiGetContext

SpecApi == Init /\ [][NextApi]_vars

\* the engine in a conversation about many topics
NextTopics ==
  \/ \E u \in TopicUtterances : ApiProcessMessage(u, <<>>, MaxTopicCalls)
  \/ \E c \in 1..Len(calls) : RespondStep(c)

SpecTopics == Init /\ [][NextTopics]_vars

\* the engine in a conversation longer than the look-back, cleared at any time
NextLookBack ==
  \/ \E u \in LookBackUtterances : ApiProcessMessage(u, <<>>, MaxLookBackCalls)
  \/ \E c \in 1..Len(calls) : RespondStep(c)
  \/ ApiClearHistory

SpecLookBack == Init /\ [][NextLookBack]_vars

\* the engine in a conversation about many topics with a caller who awaits
\* every reply before the next call
NextEvict ==
  \/ \E u \in TopicUtterances :
       /\ \A c \in 1..Len(calls) : calls[c].pc = "done"
       /\ ApiProcessMessage(u, <<>>, MaxEvictCalls)
  \/ \E c \in 1..Len(calls) : RespondStep(c)

SpecEvict == Init /\ [][NextEvict]_vars

\* the engine greeted, and cleared at any time
NextGreeting ==
  \/ \E u \in GreetingUtterances : ApiProcessMessage(u, <<>>, MaxGreetingCalls)
  \/ \E c \in 1..Len(calls) : RespondStep(c)
  \/ ApiClearHistory

SpecGreeting == Init /\ [][NextGreeting]_vars

\* the engine in a conversation whose tone changes
NextTone ==
  \/ \E u \in ToneUtterances : ApiProcessMessage(u, <<>>, MaxToneCalls)
  \/ \E c \in 1..Len(calls) : RespondStep(c)
  \/ ApiClearHistory

SpecTone == Init /\ [][NextTone]_vars

\* the engine asked about files, with utterances of every intent
NextFiles ==
  \/ \E u \in FileUtterances, a \in FileAttachmentLists :
       ApiProcessMessage(u, a, MaxFileCalls)
  \/ \E c \in 1..Len(calls) : AnalyzeStep(c)
  \/ \E c \in 1..Len(calls) : RespondStep(c)

SpecFiles == Init /\ [][NextFiles]_vars

\* the engine asked one thing in many wordings, without files
NextIntent ==
  \/ \E u \in IntentUtterances : ApiProcessMessage(u, <<>>, MaxIntentCalls)
  \/ \E c \in 1..Len(calls) : RespondStep(c)

SpecIntent == Init /\ [][NextIntent]_vars

\* the engine analysing files while time passes
NextAnalyze ==
  \/ \E u \in AnalyzeUtterances, a \in AnalyzeAttachmentLists :
       ApiProcessMessage(u, a, MaxAnalyzeCalls)
  \/ \E c \in 1..Len(calls) : AnalyzeStep(c)
  \/ \E c \in 1..Len(calls) : RespondStep(c)
  \/ Tick

SpecAnalyze == Init /\ [][NextAnalyze]_vars

\* the engine in small talk
NextPhrase ==
  \/ \E u \in PhraseUtterances : ApiProcessMessage(u, <<>>, MaxPhraseCalls)
  \/ \E c \in 1..Len(calls) : RespondStep(c)

SpecPhrase == Init /\ [][NextPhrase]_vars

\* the App driving the engine with text messages
NextApp ==
  \/ \E text \in TypedTexts : TypeInput(text)
  \/ CreateNewSession
  \/ \E i \in 1..Len(sessions) : SelectSession(i)
  \/ ClickSend(MaxSends)
  \/ \E shiftKey \in BOOLEAN : handleKeyPress("Enter", shiftKey, MaxSends)
  \/ \E c \in 1..Len(calls) : RespondStep(c)
  \/ Tick

SpecApp == Init /\ [][NextApp]_vars

(***************************************************************************)
(* Properties.                                                             *)
(***************************************************************************)
IsDone(c) == calls[c].pc = "done"
UserTurns(history) == SelectSeq(history, LAMBDA msg : msg.role = "user")
IsPrefix(s, t) == Len(s) <= Len(t) /\ SubSeq(t, 1, Len(s)) = s
NoDuplicates(seq) == \A i, j \in 1..Len(seq) : seq[i] = seq[j] => i = j
PlaceOf(seq, x) == CHOOSE i \in 1..Len(seq) : seq[i] = x
Count(seq, x) == Cardinality({i \in 1..Len(seq) : seq[i] = x})
\* the step starts a new invocation of processMessage
Starts == Len(calls') = Len(calls) + 1
Started == calls'[Len(calls')]

\* C1: every invocation of processMessage that has returned resolved its
\* promise with a non-empty string, and no invocation ever rejects, also
\* when a step of the turn threw (SpecFault).
C1_AlwaysReplies ==
  \A c \in 1..Len(calls) :
    /\ calls[c].outcome # "rejected"
    /\ IsDone(c) => /\ calls[c].outcome = "resolved"
                    /\ calls[c].response # Undefined
                    /\ Len(calls[c].response) > 0

\* C1 witness: an invocation in which a step failed has returned, after an
\* invocation in which none did
C1_Witness ==
  \E c, d \in 1..Len(calls) :
    /\ IsDone(c) /\ calls[c].failed /\ calls[c].outcome = "resolved"
    /\ IsDone(d) /\ ~calls[d].failed

\* C2: when a step of a turn failed, the reply is one of the fallback
\* strings and, once the call has returned, the history holds the user turn
\* and the fallback reply as an assistant turn (SpecFault).
C2_FallbackRecorded ==
  \A c \in 1..Len(calls) :
    IsDone(c) /\ calls[c].failed =>
      /\ calls[c].response \in SeqElems(errorResponses)
      /\ \E i \in 1..Len(conversationHistory) :
           /\ conversationHistory[i].role = "user"
           /\ conversationHistory[i].content = calls[c].content
      /\ \E i \in 1..Len(conversationHistory) :
           /\ conversationHistory[i].role = "assistant"
           /\ conversationHistory[i].content = calls[c].response

\* the context that one updateContext per user turn of the history builds
RECURSIVE contextOfTurns(_)
contextOfTurns(turns) ==
  IF turns = <<>> THEN DefaultContext
  ELSE updateContext(contextOfTurns(SubSeq(turns, 1, Len(turns) - 1)),
                     turns[Len(turns)].content, turns[Len(turns)].attachments)

\* C3: the context is updated exactly once per turn, after the user turn
\* is recorded and before the reply is composed: in every state the context
\* is the result of one update per recorded user turn, those of the turns
\* still waiting for their reply included, and in the steps of an invocation
\* the one update comes after the record and before the composition.
C3_UpdateOncePerTurn ==
  /\ context = contextOfTurns(UserTurns(conversationHistory))
  /\ \A c \in 1..Len(calls) :
       LET e == calls[c].events
       IN /\ Count(e, "update") <= 1
          /\ Count(e, "update") = 1 => e[1] = "record" /\ e[2] = "update"
          /\ Count(e, "compose") = 1 =>
               Count(e, "update") = 1 /\ PlaceOf(e, "update") < PlaceOf(e, "compose")

\* C3 witness: one turn is complete and a second turn, with attachments, has
\* been recorded and waits for its reply
C3_Witness ==
  \E c, d \in 1..Len(calls) :
    /\ IsDone(c) /\ Count(calls[c].events, "compose") = 1
    /\ calls[d].pc = "respond" /\ Count(calls[d].events, "analyze") = 2
    /\ Len(UserTurns(conversationHistory)) = 2

\* C4: at most one invocation of processMessage is in flight, whatever the
\* user clicks and types while a turn is processed (SpecApp).
C4_TurnsAreSerial ==
  Cardinality({c \in 1..Len(calls) : ~IsDone(c)}) <= 1

\* the utterances sent in session sessionId
SentIn(sessionId) ==
  {calls[c].content : c \in {d \in 1..Len(calls) : calls[d].sessionId = sessionId}}

\* the session of the side bar shows the user message of invocation d
ShownInItsSession(d) ==
  \E i \in 1..Len(sessions) :
    /\ sessions[i].id = calls[d].sessionId
    /\ \E k \in 1..Len(sessions[i].messages) :
         /\ sessions[i].messages[k].type = "user"
         /\ sessions[i].messages[k].content = calls[d].content

\* C5: what the composition of a reply for one session reads (the previous
\* questions of the context, the user turns of the history) comes from the
\* turns of that session only; stated for a turn that is processed alone,
\* every message so far being shown in the session it was sent in (SpecApp).
C5_SessionsAreIsolated ==
  \A c \in 1..Len(calls) :
    /\ calls[c].pc = "respond"
    /\ \A d \in 1..Len(calls) : d # c => IsDone(d)
    /\ \A d \in 1..Len(calls) : ShownInItsSession(d)
    =>
      /\ SeqElems(context.previousQuestions) \subseteq SentIn(calls[c].sessionId)
      /\ \A i \in 1..Len(conversationHistory) :
           conversationHistory[i].role = "user" =>
             conversationHistory[i].content \in SentIn(calls[c].sessionId)

\* in every state the history begins with its only system turn
OneSystemTurnFirst ==
  /\ Len(conversationHistory) >= 1
  /\ \A i \in 1..Len(conversationHistory) :
       conversationHistory[i].role = "system" <=> i = 1

\* C6: the history always begins with exactly one system turn, and every
\* step of processMessage only appends to it: the turns already recorded
\* stay as they are, where they are.
C6_SystemTurnAndAppendOnly ==
  /\ []OneSystemTurnFirst
  /\ [][clears' = clears => IsPrefix(conversationHistory, conversationHistory')]_vars

\* C6 witness: a turn was processed, the history was cleared, and a second
\* turn has been recorded in full
C6_Witness ==
  /\ clears = 1
  /\ Len(calls) = 2 /\ IsDone(1) /\ IsDone(2)
  /\ Len(conversationHistory) = 3
  /\ conversationHistory[2].role = "user"
  /\ conversationHistory[3].role = "assistant"

\* C7: clearHistory leaves a state in which getHistory returns a history of
\* length 1, the system turn, and getContext the default values; a caller
\* who reads after a clearHistory, before a turn writes again, gets them.
C7_ClearResets ==
  [][ /\ clears' # clears =>
           /\ Len(getHistory(conversationHistory')) = 1
           /\ getHistory(conversationHistory')[1].role = "system"
           /\ getHistory(conversationHistory')[1].content = SystemPrompt
           /\ getContext(context') = DefaultContext
      /\ lastOp = "clearHistory" /\ historySnapshot' # historySnapshot
         => /\ Len(historySnapshot'.value) = 1
            /\ historySnapshot'.value[1].role = "system"
            /\ historySnapshot'.value[1].content = SystemPrompt
      /\ lastOp = "clearHistory" /\ contextSnapshot' # contextSnapshot
         => /\ contextSnapshot'.value = DefaultContext
            /\ contextSnapshot'.value.topics = <<>>
            /\ contextSnapshot'.value.conversationTone = "friendly"
            /\ contextSnapshot'.value.previousQuestions = <<>>
            /\ contextSnapshot'.value.attachmentHistory = <<>> ]_vars

\* C7 witness: a turn with an attachment was processed, then the history
\* was cleared, then the caller read the history and the context
C7_Witness ==
  /\ lastOp = "clearHistory"
  /\ \E c \in 1..Len(calls) :
       IsDone(c) /\ ~calls[c].failed /\ Len(calls[c].attachments) > 0
  /\ historySnapshot = [ value |-> <<systemTurn(now)>>, clears |-> 1, taken |-> TRUE ]
  /\ contextSnapshot = [ value |-> DefaultContext, clears |-> 1, taken |-> TRUE ]

\* C8: the topics are at most 10 and pairwise different, and a turn whose
\* topics are all tracked already leaves the list as it is (SpecTopics).
C8_TopicsBounded ==
  /\ [](Len(context.topics) <= TopicsCap /\ NoDuplicates(context.topics))
  /\ [][ Starts /\ SeqElems(extractTopics(Started.content)) \subseteq SeqElems(context.topics)
         => context'.topics = context.topics ]_vars

\* C8 witness: a third turn brought the twelfth topic, and the two oldest
\* topics were dropped
C8_Witness ==
  /\ Len(context.topics) = TopicsCap
  /\ "Mu" \in SeqElems(context.topics)
  /\ "Alpha" \notin SeqElems(context.topics)
  /\ "Gamma" \in SeqElems(context.topics)

\* the types of the attachments of the user turns of the history
AttachmentTypesIn(history) ==
  UNION { SeqElems(attachmentTypesOf(history[i].attachments)) :
            i \in {j \in 1..Len(history) : history[j].role = "user"} }

\* C9: the attachment categories of the context hold each category once,
\* and exactly the categories of the attachments submitted since the start
\* or the last clearHistory; a turn without attachments leaves them as they
\* are.
C9_CategoriesAreASet ==
  /\ [](/\ NoDuplicates(context.attachmentHistory)
        /\ SeqElems(context.attachmentHistory) = AttachmentTypesIn(conversationHistory))
  /\ [][ Starts /\ Len(Started.attachments) = 0
         => context'.attachmentHistory = context.attachmentHistory ]_vars

\* C9 witness: a turn with two images and a turn with a text file have been
\* submitted
C9_Witness ==
  /\ \E c \in 1..Len(calls) : attachmentTypesOf(calls[c].attachments) = <<"image", "image">>
  /\ context.attachmentHistory = <<"image", "text">>

PolitenessWords == {"please", "thank you", "appreciate"}
CasualSlang == {"hey", "cool", "awesome"}
TechnicalTerms == {"algorithm", "function", "implementation"}
HasOneOf(utterance, family) == \E w \in family : includes(toLowerCase(utterance), w)

\* the tone the rules give an utterance
ToneOf(utterance) ==
  IF HasOneOf(utterance, PolitenessWords) THEN "formal"
  ELSE IF HasOneOf(utterance, CasualSlang) THEN "casual"
  ELSE IF HasOneOf(utterance, TechnicalTerms) THEN "technical"
  ELSE "friendly"

\* C11: the start of every turn overwrites the tone of the context with the
\* tone of that turn's utterance alone (formal for a politeness word, else
\* casual for slang, else technical for a technical term, else friendly),
\* whatever the tone was before; no other step but clearHistory changes it.
C11_ToneOverwritten ==
  [][ /\ Starts => context'.conversationTone = ToneOf(Started.content)
      /\ (~Starts /\ clears' = clears) =>
            context'.conversationTone = context.conversationTone ]_vars

\* C11 witness: a turn with no keyword follows a formal turn and the tone is
\* friendly again
C11_Witness ==
  /\ Len(calls) = 2
  /\ ToneOf(calls[1].content) = "formal"
  /\ ToneOf(calls[2].content) = "friendly"
  /\ clears = 0
  /\ context.conversationTone = "friendly"

\* C12: the object getContext returned reads, at any later moment, as it did
\* when it was returned (topics, tone, previousQuestions and attachment
\* categories), whatever processMessage and clearHistory did since.
C12_SnapshotsAreStable ==
  contextSnapshot.taken =>
    readSnapshot(contextSnapshot, questionArrays) = contextSnapshot.value

\* the two openings of the attachment-focused composition
AttachmentFocused(response) ==
  \/ startsWith(response, "Perfect! I've analyzed your ")
  \/ startsWith(response, "Excellent! I've analyzed all ")

\* C13: the reply of a turn is the attachment-focused composition exactly
\* when the turn has an attachment, whatever intent was classified, and it
\* then contains the name of every submitted attachment.
C13_AttachmentsTakePrecedence ==
  \A c \in 1..Len(calls) :
    (IsDone(c) /\ ~calls[c].failed) =>
      /\ AttachmentFocused(calls[c].response) <=> Len(calls[c].attachments) > 0
      /\ \A i \in 1..Len(calls[c].attachments) :
           includes(calls[c].response, calls[c].attachments[i].name)

\* C13 witness: a turn classified greeting, with two files, got the
\* attachment-focused reply
C13_Witness ==
  \E c \in 1..Len(calls) :
    /\ IsDone(c) /\ ~calls[c].failed
    /\ calls[c].messageType = "greeting"
    /\ Len(calls[c].attachments) = 2
    /\ AttachmentFocused(calls[c].response)

\* C14: the intent a turn is classified with is the intent of its utterance,
\* the one the same utterance gets in a turn without attachments, whatever
\* files accompany it.
C14_IntentOfUtteranceOnly ==
  \A c \in 1..Len(calls) :
    (IsDone(c) /\ ~calls[c].failed) =>
      calls[c].messageType = analyzeMessageType(calls[c].content)

\* the six labels, and the patterns of the five rules
IntentLabels == {"greeting", "question", "request", "analysis", "opinion", "conversation"}
MatchesGreeting(u) == testPrefix(GreetingStarts, toLowerCase(u))
MatchesQuestion(u) == includes(u, "?") \/ testPrefix(QuestionOpeners, toLowerCase(u))
MatchesRequest(u) == testPrefix(RequestOpeners, toLowerCase(u))
MatchesAnalysis(u) ==
  \E w \in {"analyze", "review", "examine", "evaluate"} : includes(toLowerCase(u), w)
MatchesOpinion(u) == testPrefix(OpinionOpeners, toLowerCase(u))

\* the rules in the fixed order, each with its label
IntentRules(u) ==
  << [ label |-> "greeting", matches |-> MatchesGreeting(u) ],
     [ label |-> "question", matches |-> MatchesQuestion(u) ],
     [ label |-> "request", matches |-> MatchesRequest(u) ],
     [ label |-> "analysis", matches |-> MatchesAnalysis(u) ],
     [ label |-> "opinion", matches |-> MatchesOpinion(u) ],
     [ label |-> "conversation", matches |-> TRUE ] >>

\* the label of the first rule that matches
FirstMatch(u) ==
  LET rules == IntentRules(u)
      first == CHOOSE i \in 1..Len(rules) :
                 rules[i].matches /\ \A j \in 1..(i - 1) : ~rules[j].matches
  IN rules[first].label

\* C15: every utterance gets exactly one of the six labels, the one of the
\* first rule that matches in the order greeting, question, request,
\* analysis, opinion, conversation: question when both the question and the
\* request pattern match, request for a request opener that is no question
\* even with an analysis word, conversation only when no rule matches.
C15_FirstMatchingRule ==
  \A c \in 1..Len(calls) :
    IsDone(c) =>
      LET u == calls[c].content
          label == calls[c].messageType
      IN /\ label \in IntentLabels
         /\ label = FirstMatch(u)
         /\ (MatchesQuestion(u) /\ MatchesRequest(u) /\ ~MatchesGreeting(u))
              => label = "question"
         /\ (MatchesRequest(u) /\ ~MatchesQuestion(u) /\ ~MatchesGreeting(u))
              => label = "request"
         /\ label = "conversation"
              => ~(MatchesGreeting(u) \/ MatchesQuestion(u) \/ MatchesRequest(u)
                   \/ MatchesAnalysis(u) \/ MatchesOpinion(u))

\* C15 witness: an utterance that begins with "can you", a question opener
\* and a request opener, and has no question mark, was classified question
C15_Witness ==
  \E c \in 1..Len(calls) :
    /\ IsDone(c)
    /\ startsWith(toLowerCase(calls[c].content), "can you")
    /\ ~includes(calls[c].content, "?")
    /\ MatchesRequest(calls[c].content) /\ MatchesAnalysis(calls[c].content)
    /\ calls[c].messageType = "question"

\* C16: an utterance that begins with hi, hello or hey, in any letter case,
\* is classified greeting, also when it has a question mark or goes on like
\* a question or a request.
C16_GreetingWins ==
  \A c \in 1..Len(calls) :
    (IsDone(c) /\ testPrefix({"hi", "hello", "hey"}, toLowerCase(calls[c].content)))
      => calls[c].messageType = "greeting"

\* C16 witness: an utterance in capitals that begins with hey and ends with a
\* question mark was classified greeting
C16_Witness ==
  \E c \in 1..Len(calls) :
    /\ IsDone(c)
    /\ startsWith(calls[c].content, "HEY")
    /\ includes(calls[c].content, "?")
    /\ calls[c].messageType = "greeting"

\* C17: an utterance with a question mark is classified question, or
\* greeting when its start matches the greeting rule.
C17_QuestionMark ==
  \A c \in 1..Len(calls) :
    (IsDone(c) /\ includes(calls[c].content, "?"))
      => calls[c].messageType =
           (IF MatchesGreeting(calls[c].content) THEN "greeting" ELSE "question")

\* C17 witness: an utterance with a question mark that begins with no
\* question opener, and with a request opener, was classified question
C17_Witness ==
  \E c \in 1..Len(calls) :
    /\ IsDone(c)
    /\ includes(calls[c].content, "?")
    /\ ~testPrefix(QuestionOpeners, toLowerCase(calls[c].content))
    /\ MatchesRequest(calls[c].content)
    /\ calls[c].messageType = "question"

\* the question word an utterance leads with: the first entry of the
\* ordered list it begins with, 'what' when it begins with none
LeadingQuestionWord(u) ==
  LET matched == { i \in 1..Len(questionWords) :
                     startsWith(toLowerCase(u), questionWords[i]) }
  IN IF matched = {} THEN "what"
     ELSE questionWords[CHOOSE i \in matched : \A j \in matched : i <= j]

\* the opening clause of each question-word family, up to the topic
FamilyClause(word) ==
  CASE word = "what" -> "Great question about "
    [] word = "how" -> "I'd be happy to walk you through "
    [] word = "why" -> "That's an insightful question about "
    [] word = "when" -> "Regarding the timing of "
    [] word = "where" -> "For the location or context of "
    [] word \in {"can you", "could you", "will you", "would you"} ->
         "Absolutely! I'd be delighted to help you with "
    [] word \in {"are you", "do you"} ->
         "That's a thoughtful question about my capabilities regarding "
    [] word \in {"who", "which"} -> "Excellent question about "

\* C20: the reply to a question turn without attachments opens with the
\* clause of the family of the first question word of the ordered list the
\* utterance begins with, the what family when it begins with none,
\* followed by the topic phrase; "What is recursion?" opens with the what
\* clause and a topic phrase that contains recursion.
C20_QuestionOpening ==
  \A c \in 1..Len(calls) :
    (IsDone(c) /\ calls[c].messageType = "question" /\ Len(calls[c].attachments) = 0)
      => LET u == calls[c].content
         IN /\ startsWith(calls[c].response,
                          FamilyClause(LeadingQuestionWord(u)) \o extractMainTopic(u))
            /\ u = "What is recursion?"
                 => /\ startsWith(calls[c].response, "Great question about ")
                    /\ includes(extractMainTopic(u), "recursion")

\* C20 witness: a question that begins with no question word of the list
\* was answered with the what clause
C20_Witness ==
  \E c \in 1..Len(calls) :
    /\ IsDone(c) /\ calls[c].messageType = "question"
    /\ \A i \in 1..Len(questionWords) :
         ~startsWith(toLowerCase(calls[c].content), questionWords[i])
    /\ startsWith(calls[c].response, "Great question about ")

\* two attachments agree on category, name, size and textual content
SameFile(a, b) ==
  a.type = b.type /\ a.name = b.name /\ a.size = b.size /\ a.content = b.content

\* C18: two attachments that agree on category, name, size and content get
\* identical reports, whenever and in whatever order they are analysed.
C18_AnalysisIsPure ==
  \A c, d \in 1..Len(calls) :
    \A i \in 1..Len(calls[c].reports), j \in 1..Len(calls[d].reports) :
      SameFile(calls[c].attachments[i], calls[d].attachments[j])
        => calls[c].reports[i] = calls[d].reports[j]

\* a text attachment whose content is missing, empty or shorter than 10
LacksContent(a) ==
  a.type = "text" /\ (a.content = Undefined \/ Len(a.content) < 10)

\* the notice for file a
IsMinimalNotice(report, a) ==
  /\ includes(report, a.name)
  /\ includes(report, "appears to be empty or contains minimal content")
  /\ ~includes(report, "Metrics")
  /\ ~includes(report, "Words")

\* C19: the report of a text attachment whose content is missing, empty or
\* shorter than 10 characters is the short notice that names the file, with
\* no metrics; the analysis raises no error and the turn ends with a normal
\* reply, not a fallback.
C19_MinimalContentNotice ==
  \A c \in 1..Len(calls) :
    /\ \A i \in 1..Len(calls[c].reports) :
         LacksContent(calls[c].attachments[i])
           => IsMinimalNotice(calls[c].reports[i], calls[c].attachments[i])
    /\ (\A i \in 1..Len(calls[c].attachments) : LacksContent(calls[c].attachments[i]))
         => /\ ~calls[c].failed
            /\ calls[c].pc = "analyze" => calls[c].index = Len(calls[c].reports) + 1
            /\ IsDone(c) => /\ calls[c].outcome = "resolved"
                             /\ Len(calls[c].reports) = Len(calls[c].attachments)
                             /\ AttachmentFocused(calls[c].response)
                             /\ \A k \in 1..Len(errorResponses) :
                                  calls[c].response # errorResponses[k]

\* C19 witness: a turn with a text file without content and an empty one has
\* replied
C19_Witness ==
  \E c \in 1..Len(calls) :
    /\ IsDone(c) /\ ~calls[c].failed
    /\ calls[c].attachments = <<missingTxt, emptyTxt>>
    /\ IsMinimalNotice(calls[c].reports[1], missingTxt)
    /\ IsMinimalNotice(calls[c].reports[2], emptyTxt)

\* the action words the request composition is keyed by, in order
PlanActionWords ==
  <<"analyze", "create", "make", "generate", "explain", "summarize", "help">>

\* the first of them that occurs in the utterance, help when none does
LeadingActionWord(u) ==
  LET matched == { i \in 1..Len(PlanActionWords) :
                     includes(toLowerCase(u), PlanActionWords[i]) }
  IN IF matched = {} THEN "help"
     ELSE PlanActionWords[CHOOSE i \in matched : \A j \in matched : i <= j]

\* C21: the reply to a request turn without attachments is built on an
\* action word that is one of analyze, create, make, generate, explain,
\* summarize, help: the first of them that matches the utterance, help when
\* none matches.
C21_ActionWord ==
  \A c \in 1..Len(calls) :
    (IsDone(c) /\ calls[c].messageType = "request" /\ Len(calls[c].attachments) = 0)
      => startsWith(calls[c].response,
                    "I'd be happy to " \o LeadingActionWord(calls[c].content) \o " "
                    \o extractMainTopic(calls[c].content) \o " for you! ")

\* the tokens of an utterance that remain after lowercasing, stripping
\* punctuation, splitting on whitespace and discarding stop words and tokens
\* of length 2 or less
KeptTokens(u) ==
  SelectSeq(splitWhitespace(stripPunctuation(toLowerCase(u))),
            LAMBDA token : Len(token) > 2 /\ token \notin stopWords)

\* the first three of them joined by single spaces, or the placeholder
PhraseOf(u) ==
  LET kept == KeptTokens(u)
  IN IF kept = <<>> THEN "this topic"
     ELSE IF Len(kept) = 1 THEN kept[1]
     ELSE IF Len(kept) = 2 THEN kept[1] \o " " \o kept[2]
     ELSE kept[1] \o " " \o kept[2] \o " " \o kept[3]

\* C22: the topic phrase of an utterance is the first 3 kept tokens joined
\* by single spaces, the placeholder "this topic" when none is kept (as for
\* the empty utterance, which is classified conversation); it is never
\* empty and has at most 3 tokens, and it is the phrase the reply to a
\* conversation turn is built on.
C22_TopicPhrase ==
  \A c \in 1..Len(calls) :
    LET u == calls[c].content
        phrase == extractMainTopic(u)
    IN (IsDone(c) /\ ~calls[c].failed) =>
         /\ phrase = PhraseOf(u)
         /\ phrase # ""
         /\ Len(SelectSeq(splitOn(phrase, {" "}), LAMBDA token : TRUE)) <= 3
         /\ \A i \in 1..Len(splitOn(phrase, {" "})) : splitOn(phrase, {" "})[i] # ""
         /\ u = "" => calls[c].messageType = "conversation" /\ phrase = "this topic"
         /\ calls[c].messageType = "conversation"
              => \E k \in RandomPicks :
                   startsWith(calls[c].response, conversationStarters(PhraseOf(u))[k])

\* C22 witness: the empty utterance was answered as small talk about
\* "this topic", and an utterance with five kept tokens about its first three
C22_Witness ==
  /\ Len(calls) = 2 /\ IsDone(1) /\ IsDone(2)
  /\ calls[1].content = "" /\ calls[1].messageType = "conversation"
  /\ includes(calls[1].response, "What aspects of this topic interest you most?")
  /\ Len(KeptTokens(calls[2].content)) > 3
  /\ includes(calls[2].response, "What aspects of tell quick brown interest you most?")

\* the step completes invocation c
Completes(c) == c <= Len(calls) /\ ~IsDone(c) /\ calls'[c].pc = "done"

\* C23: every invocation of processMessage eventually completes, whatever
\* the length of its attachment list; its start appends the user turn with
\* the raw utterance and the attachments, its completion without a failure
\* appends the assistant turn whose content is the reply returned, and no
\* other step of it appends a turn: two turns in all, in this order.
C23_CompletesWithTwoTurns ==
  /\ \A c \in 1..MaxCalls : (Len(calls) >= c) ~> (Len(calls) >= c /\ IsDone(c))
  /\ [][ /\ Starts =>
             /\ Len(conversationHistory') = Len(conversationHistory) + 1
             /\ conversationHistory'[Len(conversationHistory')].role = "user"
             /\ conversationHistory'[Len(conversationHistory')].content = Started.content
             /\ conversationHistory'[Len(conversationHistory')].attachments
                  = Started.attachments
        /\ \A c \in 1..Len(calls) :
             /\ (Completes(c) /\ ~calls'[c].failed) =>
                  /\ Len(conversationHistory') = Len(conversationHistory) + 1
                  /\ conversationHistory'[Len(conversationHistory')].role = "assistant"
                  /\ conversationHistory'[Len(conversationHistory')].content
                       = calls'[c].response
                  /\ calls'[c].outcome = "resolved"
                  /\ calls'[c].events = <<"record", "update">>
                       \o [i \in 1..Len(calls[c].attachments) |-> "analyze"]
                       \o <<"compose", "reply">>
             /\ (calls'[c] # calls[c] /\ ~Completes(c)) =>
                  conversationHistory' = conversationHistory ]_vars

\* C23 witness: an invocation with two attachments has completed and the
\* history ends with its two turns
C23_Witness ==
  \E c \in 1..Len(calls) :
    /\ IsDone(c) /\ ~calls[c].failed /\ Len(calls[c].attachments) = 2
    /\ Len(conversationHistory) >= 3
    /\ conversationHistory[Len(conversationHistory) - 1].role = "user"
    /\ conversationHistory[Len(conversationHistory) - 1].content = calls[c].content
    /\ conversationHistory[Len(conversationHistory)].role = "assistant"
    /\ conversationHistory[Len(conversationHistory)].content = calls[c].response

\* the positions of the history the look-back covers: those of the non-system
\* turns followed by fewer than LookBack non-system turns
CoveredPositions(history) ==
  { i \in 1..Len(history) :
      /\ history[i].role # "system"
      /\ Cardinality({ j \in (i + 1)..Len(history) : history[j].role # "system" }) < LookBack }
TurnLine(msg) == msg.role \o ": " \o substring0(msg.content, LookBackChars) \o "..."
RECURSIVE CoveredLines(_, _)
CoveredLines(history, i) ==
  IF i > Len(history) THEN <<>>
  ELSE (IF i \in CoveredPositions(history) THEN <<TurnLine(history[i])>> ELSE <<>>)
         \o CoveredLines(history, i + 1)
CoveredString(history) == join(CoveredLines(history, 1), "\n")
Composes(c) == calls[c].pc = "respond" /\ calls'[c].pc = "done" /\ ~calls'[c].failed

\* C24: in every state the look-back string of the history is made of the
\* lines of its last 4 non-system turns (of all of them when there are
\* fewer), in history order, and the string an invocation composes its reply
\* with is the one of the history at that moment.
C24_LookBackCoversLastFour ==
  /\ [](buildConversationContext(conversationHistory) = CoveredString(conversationHistory))
  /\ [][\A c \in 1..Len(calls) :
          Composes(c) => calls'[c].conversationContext = CoveredString(conversationHistory)]_vars
C24_Witness ==
  /\ Len(conversationHistory) = 7
  /\ Len(calls) = 3 /\ IsDone(3) /\ ~calls[3].failed
  /\ Cardinality(CoveredPositions(conversationHistory)) = LookBack
  /\ calls[3].conversationContext
       = join([i \in 1..4 |-> TurnLine(conversationHistory[i + 2])], "\n")

\* the four answer-shaped texts, by their opening words
AnswerOpening(family) ==
  CASE family = "what" -> "file contains detailed information that directly addresses"
    [] family = "how" -> "The file explains the processes and methodologies"
    [] family = "why" -> "The document provides reasoning and explanations"
    [] OTHER -> "Based on the file content, I can provide detailed answers"
AnswerFamilies == {"what", "how", "why", "other"}
AnswerShaped(response) == \E f \in AnswerFamilies : includes(response, AnswerOpening(f))
InsightShaped(response, attachment) == includes(response, generateFileInsights(attachment))

\* C25: the reply of a turn with exactly one attachment holds an
\* answer-shaped text exactly when the turn was classified question, and
\* otherwise the insight paragraph of the category of the attachment; the
\* answer-shaped text is the one that the words of the utterance of the user
\* select (what, how, why, any other), whatever the analysis report of the
\* attachment says.
C25_AnswerByQuestionWord ==
  \A c \in 1..Len(calls) :
    (IsDone(c) /\ ~calls[c].failed /\ Len(calls[c].attachments) = 1) =>
      /\ AnswerShaped(calls[c].response) <=> calls[c].messageType = "question"
      /\ calls[c].messageType # "question" =>
           InsightShaped(calls[c].response, calls[c].attachments[1])
      /\ calls[c].messageType = "question" =>
           includes(calls[c].response,
                    generateFileSpecificAnswer(calls[c].content, calls[c].attachments[1]))

\* the topics of an utterance that the context does not track, once each, in
\* the order of the utterance
InsertedTopics(tracked, content) ==
  LET untracked(t) == t \notin SeqElems(tracked)
  IN uniqueInOrder(SelectSeq(extractTopics(content), untracked))
AfterInsertion(tracked, content) == tracked \o InsertedTopics(tracked, content)
Overflows(tracked, content) == Len(AfterInsertion(tracked, content)) > TopicsCap

\* C26: a turn whose new topics make more than 10 leaves the 10 entries
\* inserted last, in the order of their insertion: the tracked topics lose
\* their oldest entries and the new topics follow them.  A topic that is not
\* tracked when a turn names it, be it one that was evicted before, becomes
\* an entry behind every topic that was tracked.
C26_EvictsOldestFirst ==
  [][ Starts =>
        LET tracked == context.topics
            content == Started.content
            after == AfterInsertion(tracked, content)
            inserted == InsertedTopics(tracked, content)
        IN /\ Overflows(tracked, content) =>
                context'.topics = SubSeq(after, Len(after) - TopicsCap + 1, Len(after))
           /\ \A i \in 1..Len(inserted) :
                /\ Count(context'.topics, inserted[i]) = 1
                /\ \A t \in SeqElems(tracked) \cap SeqElems(context'.topics) :
                     PlaceOf(context'.topics, t) < PlaceOf(context'.topics, inserted[i])
    ]_vars

\* C26 witness: Alpha stands behind Mu, so it was tracked when Mu was
\* inserted, was evicted, and was inserted again; Beta, evicted with it, is
\* still gone
C26_Witness ==
  /\ Len(context.topics) = TopicsCap
  /\ context.topics[TopicsCap] = "Alpha"
  /\ "Mu" \in SeqElems(context.topics)
  /\ "Beta" \notin SeqElems(context.topics)

Tracked(c) == Count(context.previousQuestions, calls[c].content) >= 1

\* C27: a turn without attachments that the classifier labels question had
\* its utterance appended to previousQuestions by its own context update;
\* an utterance that starts with a greeting token and is a question by the
\* is-a-question predicate is appended as well, and is labelled greeting.
C27_QuestionsAreTracked ==
  /\ [](\A c \in 1..Len(calls) :
          (IsDone(c) /\ ~calls[c].failed /\ calls[c].attachments = <<>>) =>
            /\ calls[c].messageType = analyzeMessageType(calls[c].content)
            /\ calls[c].messageType = "question" => Tracked(c)
            /\ (MatchesGreeting(calls[c].content) /\ isQuestion(calls[c].content)) =>
                 calls[c].messageType = "greeting" /\ Tracked(c))
  /\ [][ (Starts /\ Started.attachments = <<>>
           /\ analyzeMessageType(Started.content) = "question")
         => context'.previousQuestions
              = Append(context.previousQuestions, Started.content) ]_vars

\* C27 witness: a greeting with a question mark, tracked as a question
C27_Witness ==
  \E c \in 1..Len(calls) :
    /\ IsDone(c) /\ ~calls[c].failed /\ calls[c].attachments = <<>>
    /\ calls[c].messageType = "greeting"
    /\ MatchesGreeting(calls[c].content)
    /\ context.previousQuestions = <<calls[c].content>>

\* the invocation whose reply the turn at position i holds, if there is one
Answers(c, i) ==
  /\ IsDone(c) /\ ~calls[c].failed
  /\ conversationHistory[i].role = "assistant"
  /\ conversationHistory[i].content = calls[c].response

\* C28: in every history, whatever runs while an invocation of
\* processMessage is suspended, the turn after the system turn is a user
\* turn, user and assistant turns alternate, and the turn before an
\* assistant turn is the user turn of the invocation that replied.
C28_TurnsAlternate ==
  /\ conversationHistory[1].role = "system"
  /\ \A i \in 2..Len(conversationHistory) :
       /\ conversationHistory[i].role = (IF i % 2 = 0 THEN "user" ELSE "assistant")
       /\ conversationHistory[i].role = "assistant" =>
            \E c \in 1..Len(calls) :
              /\ Answers(c, i)
              /\ conversationHistory[i - 1].content = calls[c].content
              /\ conversationHistory[i - 1].attachments = calls[c].attachments

CallbackSentence == " I see we've been having an interesting conversation. "
GreetingReply(response) == \E pick \in RandomPicks : startsWith(response, greetings[pick])

\* C29: every greeting reply that processMessage returned holds the sentence
\* about the ongoing conversation, the one of the first turn after the
\* construction or a clearHistory included.
C29_GreetingHasCallback ==
  \A c \in 1..Len(calls) :
    (IsDone(c) /\ ~calls[c].failed /\ GreetingReply(calls[c].response)) =>
      includes(calls[c].response, CallbackSentence)

\* the session of the side bar shows the reply of invocation d
ReplyShownInItsSession(d) ==
  \E i \in 1..Len(sessions) :
    /\ sessions[i].id = calls[d].sessionId
    /\ \E k \in 1..Len(sessions[i].messages) :
         /\ sessions[i].messages[k].type = "assistant"
         /\ sessions[i].messages[k].content = calls[d].response

\* C30: a message sent while no session is selected is appended, and its
\* reply after it, to the session that sendMessage created for it: the id
\* sendMessage appends under is the id of the new session, which is the
\* selected one from then on, whatever time passes between the two reads of
\* the clock.
C30_SentToTheNewSession ==
  /\ [](\A d \in 1..Len(calls) :
          /\ ShownInItsSession(d)
          /\ IsDone(d) => ReplyShownInItsSession(d))
  /\ [][ (Starts /\ currentSessionId = NoSession) =>
           /\ Len(sessions') = Len(sessions) + 1
           /\ sessions'[1].id = Started.sessionId
           /\ currentSessionId' = Started.sessionId ]_vars

====
